---- MODULE Spec2Model ----
(***************************************************************************)
(* Element tracking and appearance mutation of the w11-theming-suite TAPs. *)
(*                                                                         *)
(* Two injected payloads are modelled: the multi-target watcher            *)
(* (src/native/ShellTAP) and the single-target, frame-grouping watcher     *)
(* (src/native/TaskbarTAP).  A behaviour is one process instance: the      *)
(* variable `variant` says which payload was injected, and only that       *)
(* payload's handlers run.                                                 *)
(*                                                                         *)
(* Strings are sequences of one-character strings; a null pointer to a     *)
(* string is NULL.  Opacities are counted in millionths (0.3 = 300000).    *)
(***************************************************************************)
EXTENDS Integers, Sequences, FiniteSets, TLC

VARIABLES
    variant,          \* which payload this process instance runs
    g_config,         \* ShellTAP: the configuration record copied at attach
    g_discoveryMode,  \* ShellTAP: discovery flag
    g_mode,           \* ShellTAP: process-wide appearance mode
    g_appearance,     \* TaskbarTAP: process-wide appearance mode
    g_pSharedMode,    \* the shared mode word: <<>> when not mapped, <<v>> when mapped
    m_tracked,        \* ShellTAP: rows 0..m_trackedCount-1 of the tracked-element table
    m_trackedCount,   \* ShellTAP: rows in use
    m_taskbars,       \* TaskbarTAP: rows 0..m_taskbarCount-1 of the taskbar table
    m_taskbarCount,   \* TaskbarTAP: rows in use
    xaml,             \* host side: local property overrides of the elements
    ret,              \* status returned by the last handler or export
    calls,            \* property-mutator invocations made by the last handler
    ops,              \* remote property operations issued by the last handler
    lastOp,           \* the last operation delivered and its inputs
    nAdds,            \* Add events delivered so far
    pc,               \* where each thread stands inside a handler (<<>>: outside)
    site              \* attachment: the site, interfaces, watcher and poll threads held

vars == <<variant, g_config, g_discoveryMode, g_mode, g_appearance, g_pSharedMode,
          m_tracked, m_trackedCount, m_taskbars, m_taskbarCount, xaml,
          ret, calls, ops, lastOp, nAdds, pc, site>>

shellVars == <<g_config, g_discoveryMode, g_mode, m_tracked, m_trackedCount>>
taskbarVars == <<g_appearance, m_taskbars, m_taskbarCount>>

----------------------------------------------------------------------------
(* Bounds of the model *)

\* Add events delivered in one behaviour of Spec
MaxAdds == 2
\* Add events beyond the capacity of the larger table delivered in SpecCap
CapExtra == 3

----------------------------------------------------------------------------
(* Program constants *)

MODE_DEFAULT == 0
MODE_TRANSPARENT == 1
MODE_ACRYLIC == 2

APPEARANCE_DEFAULT == 0
APPEARANCE_TRANSPARENT == 1
APPEARANCE_ACRYLIC == 2

SHELLTAP_CONFIG_VERSION == 1
MAX_TARGETS == 8
MAX_TRACKED == 32
MAX_TASKBARS == 8
NAME_CHARS == 63
TYPE_CHARS == 127

S_OK == "S_OK"
E_INVALIDARG == "E_INVALIDARG"
E_NOINTERFACE == "E_NOINTERFACE"

----------------------------------------------------------------------------
(* Strings *)

NULL == <<"(null)">>
EMPTY == <<>>
WILDCARD == <<"*">>

sStroke == <<"S","t","r","o","k","e">>
sFoo == <<"F","o","o">>
sLowerStroke == <<"s","t","r","o","k","e">>
sBackgroundFill == <<"B","a","c","k","g","r","o","u","n","d","F","i","l","l">>
sBackgroundStroke == <<"B","a","c","k","g","r","o","u","n","d","S","t","r","o","k","e">>
sRectangle == <<"R","e","c","t","a","n","g","l","e">>
sShapesRectangle == <<"S","h","a","p","e","s",".","R","e","c","t","a","n","g","l","e">>
sCircle == <<"C","i","r","c","l","e">>
sTaskbarFrame == <<"T","a","s","k","b","a","r","F","r","a","m","e">>
sTaskbarTaskbarFrame == <<"T","a","s","k","b","a","r",".","T","a","s","k","b","a","r","F","r","a","m","e">>

Min(a, b) == IF a < b THEN a ELSE b

\* wcsstr(hay, needle) != nullptr, and std::wstring::find(needle) != npos
wcsstr(hay, needle) ==
    \E i \in 0..(Len(hay) - Len(needle)) : SubSeq(hay, i + 1, i + Len(needle)) = needle

\* wcscmp(a, b) == 0, and std::wstring operator==
wcscmp0(a, b) == a = b

\* wcsncpy_s(dest, src, count): at most count characters of src
wcsncpy_s(src, count) == SubSeq(src, 1, Min(Len(src), count))

----------------------------------------------------------------------------
(* Configuration record (ShellTAPConfig) and ReadConfig *)

Rule(n, t) == [name |-> n, type |-> t]

\* targetNames[8][64] / targetTypes[8][128]: the rules written, the rest zeroed
Names8(rules) == [i \in 1..MAX_TARGETS |-> IF i <= Len(rules) THEN rules[i].name ELSE EMPTY]
Types8(rules) == [i \in 1..MAX_TARGETS |-> IF i <= Len(rules) THEN rules[i].type ELSE EMPTY]

Blob(present, version, mode, targetCount, rules) ==
    [present |-> present, version |-> version, mode |-> mode, targetCount |-> targetCount,
     targetNames |-> Names8(rules), targetTypes |-> Types8(rules)]

\* static ShellTAPConfig g_config = {0}
ZeroConfig ==
    [version |-> 0, mode |-> 0, targetCount |-> 0,
     targetNames |-> Names8(<<>>), targetTypes |-> Types8(<<>>)]

\* The configuration blobs the controller may have written before injection
ConfigBlobs ==
    { Blob(FALSE, 0, 0, 0, <<>>),
      Blob(TRUE, 1, MODE_DEFAULT, 1, <<Rule(sBackgroundFill, sRectangle)>>),
      Blob(TRUE, 1, MODE_TRANSPARENT, 2, <<Rule(WILDCARD, sRectangle), Rule(sFoo, WILDCARD)>>),
      Blob(TRUE, 1, MODE_ACRYLIC, 1, <<Rule(WILDCARD, WILDCARD)>>),
      Blob(TRUE, 2, MODE_DEFAULT, 1, <<Rule(WILDCARD, WILDCARD)>>),
      Blob(TRUE, 1, MODE_ACRYLIC, 0, <<Rule(WILDCARD, WILDCARD)>>) }

\* ReadConfig accepting a record of any version
ReadConfigAnyVersion(blob) ==
    LET copied == [version |-> blob.version, mode |-> blob.mode,
                   targetCount |-> blob.targetCount,
                   targetNames |-> blob.targetNames, targetTypes |-> blob.targetTypes]
    IN  IF ~blob.present
        THEN [g_config |-> ZeroConfig, g_mode |-> MODE_TRANSPARENT, g_discoveryMode |-> TRUE]
        ELSE [g_config |-> copied, g_mode |-> blob.mode,
              g_discoveryMode |-> (blob.targetCount = 0)]

\* ReadConfig leaving g_mode at its static initialiser
ReadConfigStaticMode(blob) ==
    LET copied == [version |-> blob.version, mode |-> blob.mode,
                   targetCount |-> blob.targetCount,
                   targetNames |-> blob.targetNames, targetTypes |-> blob.targetTypes]
    IN  IF ~blob.present
        THEN [g_config |-> ZeroConfig, g_mode |-> MODE_TRANSPARENT, g_discoveryMode |-> TRUE]
        ELSE IF blob.version # SHELLTAP_CONFIG_VERSION
        THEN [g_config |-> copied, g_mode |-> MODE_TRANSPARENT, g_discoveryMode |-> TRUE]
        ELSE [g_config |-> copied, g_mode |-> MODE_TRANSPARENT,
              g_discoveryMode |-> (blob.targetCount = 0)]

\* ReadConfig: the globals it leaves behind, starting from their static initialisers
ReadConfig(blob) ==
    LET copied == [version |-> blob.version, mode |-> blob.mode,
                   targetCount |-> blob.targetCount,
                   targetNames |-> blob.targetNames, targetTypes |-> blob.targetTypes]
    IN  IF ~blob.present
        THEN [g_config |-> ZeroConfig, g_mode |-> MODE_TRANSPARENT, g_discoveryMode |-> TRUE]
        ELSE IF blob.version # SHELLTAP_CONFIG_VERSION
        THEN [g_config |-> copied, g_mode |-> MODE_TRANSPARENT, g_discoveryMode |-> TRUE]
        ELSE [g_config |-> copied, g_mode |-> blob.mode,
              g_discoveryMode |-> (blob.targetCount = 0)]

----------------------------------------------------------------------------
(* Element matcher (ShellTAP) *)

\* Name matching of rule i (0-based): wildcard "*" or exact match of a non-null name
nameMatch(cfg, i, name) ==
    IF cfg.targetNames[i + 1] = WILDCARD THEN TRUE
    ELSE name # NULL /\ wcscmp0(name, cfg.targetNames[i + 1])

\* Type matching of rule i (0-based): wildcard "*" or substring of a non-null type
typeMatch(cfg, i, type) ==
    IF cfg.targetTypes[i + 1] = WILDCARD THEN TRUE
    ELSE type # NULL /\ wcsstr(type, cfg.targetTypes[i + 1])

\* The heuristic ignoring the case of the leading letter
StrokeHeuristicAnyCase(name) == name # NULL /\ (wcsstr(name, sStroke) \/ wcsstr(name, sLowerStroke))

\* Heuristic: "Stroke" in the name means it's a stroke element
StrokeHeuristic(name) == name # NULL /\ wcsstr(name, sStroke)

\* A rule hit by either of its conditions
RuleHitAny(cfg, i, name, type) == nameMatch(cfg, i, name) \/ typeMatch(cfg, i, type)

\* Both conditions of rule i hold
RuleHit(cfg, i, name, type) == nameMatch(cfg, i, name) /\ typeMatch(cfg, i, type)

\* The matcher consulting the first rule only
MatchLoopFirstOnly(cfg, i, name, type) ==
    IF ~(i < cfg.targetCount /\ i < MAX_TARGETS)
    THEN [matched |-> FALSE, isStroke |-> FALSE, rule |-> -1]
    ELSE IF RuleHit(cfg, i, name, type)
    THEN [matched |-> TRUE, isStroke |-> StrokeHeuristic(name), rule |-> i]
    ELSE [matched |-> FALSE, isStroke |-> FALSE, rule |-> -1]

\* The for loop of MatchesTarget from index i on: first matching rule returns
RECURSIVE MatchLoop(_, _, _, _)
MatchLoop(cfg, i, name, type) ==
    IF ~(i < cfg.targetCount /\ i < MAX_TARGETS)
    THEN [matched |-> FALSE, isStroke |-> FALSE, rule |-> -1]
    ELSE IF RuleHit(cfg, i, name, type)
    THEN [matched |-> TRUE, isStroke |-> StrokeHeuristic(name), rule |-> i]
    ELSE MatchLoop(cfg, i + 1, name, type)

MatchesTarget(name, type) == MatchLoop(g_config, 0, name, type)

----------------------------------------------------------------------------
(* The host's elements: what an event for handle h carries, and the         *)
(* properties GetPropertyValuesChain lists for it                           *)

pOpacity == "Opacity"
pFill == "Fill"

Element(n, t, props) == [name |-> n, type |-> t, props |-> props]

\* Elements of varied shape, delivered in any order
VariedHandles == 1..4
\* Elements of a taskbar being built, delivered in handle order (SpecCap)
BulkHandles == 7..(6 + MAX_TRACKED + CapExtra)

\* Elements carrying every pairing of the names and types below, one per handle
ProbeNames == <<NULL, EMPTY, WILDCARD, sFoo, sStroke, sLowerStroke, sBackgroundFill,
                sBackgroundStroke>>
ProbeTypes == <<NULL, EMPTY, WILDCARD, sRectangle, sShapesRectangle, sCircle,
                sTaskbarTaskbarFrame>>
ProbeBase == 6 + MAX_TRACKED + CapExtra
ProbeHandles == (ProbeBase + 1)..(ProbeBase + Len(ProbeNames) * Len(ProbeTypes))
ProbeName(h) == ProbeNames[((h - ProbeBase - 1) \div Len(ProbeTypes)) + 1]
ProbeType(h) == ProbeTypes[((h - ProbeBase - 1) % Len(ProbeTypes)) + 1]

\* The remote calls of the mutator, in the order it makes them.  An element of
\* FaultHandles is one for which the host fails the call of the same position.
FaultKinds == <<"GetIInspectableFromHandle", "GetHandleFromIInspectable",
                "GetPropertyValuesChain", "CreateInstance(Double)", "SetProperty(Opacity)",
                "CreateInstance(SolidColorBrush)", "SetProperty(Fill)">>
FaultBase == ProbeBase + Len(ProbeNames) * Len(ProbeTypes)
FaultHandles == (FaultBase + 1)..(FaultBase + Len(FaultKinds))
Faults(h) == IF h \in FaultHandles THEN {FaultKinds[h - FaultBase]} ELSE {}
\* FAILED(hr) of the remote call `call` made for handle h
Fails(h, call) == call \in Faults(h)

ElementOf(h) ==
    CASE h = 1 -> Element(sBackgroundFill, sShapesRectangle, {pOpacity, pFill})
      [] h = 2 -> Element(sBackgroundStroke, sShapesRectangle, {pOpacity, pFill})
      [] h = 3 -> Element(NULL, sShapesRectangle, {pOpacity, pFill})
      [] h = 4 -> Element(sLowerStroke, sTaskbarTaskbarFrame, {pOpacity})
      [] h = 5 -> Element(sFoo, sCircle, {pOpacity, pFill})
      [] h = 6 -> Element(sBackgroundFill, sRectangle, {pFill})
      [] h \in {7, 9} -> Element(sBackgroundFill, sShapesRectangle, {pOpacity, pFill})
      [] h \in {8, 10} -> Element(sBackgroundStroke, sShapesRectangle, {pOpacity, pFill})
      [] h \in ProbeHandles -> Element(ProbeName(h), ProbeType(h), {pOpacity, pFill})
      [] h \in FaultHandles -> Element(sBackgroundFill, sShapesRectangle, {pOpacity, pFill})
      [] OTHER -> Element(sBackgroundFill, sTaskbarTaskbarFrame, {pOpacity, pFill})

----------------------------------------------------------------------------
(* Remote property operations and their effect on the host's elements *)

NoOverride == [Opacity |-> <<>>, Fill |-> <<>>]
Overrides(x, h) == IF h \in DOMAIN x THEN x[h] ELSE NoOverride

\* std::to_wstring(double): integer part and six decimals
to_wstring(opacity) == <<opacity \div 1000000, opacity % 1000000>>
\* the host's reading of a "Double" literal
ParseDouble(text) == text[1] * 1000000 + text[2]

sDouble == "Double"
sSolidColorBrush == "Windows.UI.Xaml.Media.SolidColorBrush"
sTransparent == "Transparent"

\* IVisualTreeService::CreateInstance(type, value)
CreateInstance(type, text) == [type |-> type, text |-> text]

\* IVisualTreeService::SetProperty(handle, value, index of prop)
SetProperty(h, value, prop) == [op |-> "SetProperty", handle |-> h, prop |-> prop, value |-> value]

\* What the host stores for a value instance
ValueOf(value) == IF value.type = sDouble THEN ParseDouble(value.text) ELSE value.text

\* The value a property holds after the operations os: the last one written to it
LastWritten(os, h, prop, old) ==
    LET idx == {i \in DOMAIN os : os[i].handle = h /\ os[i].prop = prop}
        last == CHOOSE i \in idx : \A j \in idx : j <= i
    IN  IF idx = {} THEN old ELSE <<ValueOf(os[last].value)>>

\* The host executing a sequence of operations in order
Exec(x, os) ==
    [h \in DOMAIN x \cup {os[i].handle : i \in DOMAIN os} |->
        [Opacity |-> LastWritten(os, h, pOpacity, Overrides(x, h).Opacity),
         Fill |-> LastWritten(os, h, pFill, Overrides(x, h).Fill)]]

----------------------------------------------------------------------------
(* Property mutator (ShellTAP) *)

\* One step of the mutator: a remote call or a release, and whether it succeeded
Step(op, h, ok) == [op |-> op, handle |-> h, ok |-> ok]

\* A SetProperty call as a step
SetPropertyStep(h, value, prop, ok) ==
    [op |-> "SetProperty", handle |-> h, prop |-> prop, value |-> value, ok |-> ok]

\* The property writes among the steps that the host accepted
Written(steps) ==
    LET done == SelectSeq(steps, LAMBDA st : st.op = "SetProperty" /\ st.ok)
    IN  [i \in 1..Len(done) |-> SetProperty(done[i].handle, done[i].value, done[i].prop)]

\* SetElementOpacity that returns as soon as the opacity write has failed
SetElementOpacityStepsAbort(h, opacity) ==
    LET props == ElementOf(h).props
        getHandle == <<Step("GetHandleFromIInspectable", h, ~Fails(h, "GetHandleFromIInspectable"))>>
        chain == <<Step("GetPropertyValuesChain", h, ~Fails(h, "GetPropertyValuesChain"))>>
        opacityFailed == pOpacity \in props /\ (Fails(h, "CreateInstance(Double)")
                                               \/ Fails(h, "SetProperty(Opacity)"))
        opacitySteps ==
            IF pOpacity \in props
            THEN <<Step("CreateInstance(Double)", h, ~Fails(h, "CreateInstance(Double)"))>>
                 \o (IF ~Fails(h, "CreateInstance(Double)")
                     THEN <<SetPropertyStep(h, CreateInstance(sDouble, to_wstring(opacity)),
                                            pOpacity, ~Fails(h, "SetProperty(Opacity)"))>>
                     ELSE <<>>)
            ELSE <<>>
        fillSteps ==
            IF pFill \in props /\ opacity < 1000000 /\ ~opacityFailed
            THEN <<Step("CreateInstance(SolidColorBrush)", h,
                        ~Fails(h, "CreateInstance(SolidColorBrush)"))>>
                 \o (IF ~Fails(h, "CreateInstance(SolidColorBrush)")
                     THEN <<SetPropertyStep(h, CreateInstance(sSolidColorBrush, sTransparent),
                                            pFill, ~Fails(h, "SetProperty(Fill)"))>>
                     ELSE <<>>)
            ELSE <<>>
        free == <<Step("FreeValues", h, TRUE), Step("FreeSources", h, TRUE)>>
    IN  IF Fails(h, "GetHandleFromIInspectable") THEN getHandle
        ELSE IF Fails(h, "GetPropertyValuesChain") THEN getHandle \o chain
        ELSE getHandle \o chain \o opacitySteps \o fillSteps \o free

\* SetElementOpacity: its remote calls and releases for one element, in order
SetElementOpacitySteps(h, opacity) ==
    LET props == ElementOf(h).props
        getHandle == <<Step("GetHandleFromIInspectable", h, ~Fails(h, "GetHandleFromIInspectable"))>>
        chain == <<Step("GetPropertyValuesChain", h, ~Fails(h, "GetPropertyValuesChain"))>>
        opacitySteps ==
            IF pOpacity \in props
            THEN <<Step("CreateInstance(Double)", h, ~Fails(h, "CreateInstance(Double)"))>>
                 \o (IF ~Fails(h, "CreateInstance(Double)")
                     THEN <<SetPropertyStep(h, CreateInstance(sDouble, to_wstring(opacity)),
                                            pOpacity, ~Fails(h, "SetProperty(Opacity)"))>>
                     ELSE <<>>)
            ELSE <<>>
        fillSteps ==
            IF pFill \in props /\ opacity < 1000000
            THEN <<Step("CreateInstance(SolidColorBrush)", h,
                        ~Fails(h, "CreateInstance(SolidColorBrush)"))>>
                 \o (IF ~Fails(h, "CreateInstance(SolidColorBrush)")
                     THEN <<SetPropertyStep(h, CreateInstance(sSolidColorBrush, sTransparent),
                                            pFill, ~Fails(h, "SetProperty(Fill)"))>>
                     ELSE <<>>)
            ELSE <<>>
        free == <<Step("FreeValues", h, TRUE), Step("FreeSources", h, TRUE)>>
    IN  IF Fails(h, "GetHandleFromIInspectable") THEN getHandle
        ELSE IF Fails(h, "GetPropertyValuesChain") THEN getHandle \o chain
        ELSE getHandle \o chain \o opacitySteps \o fillSteps \o free

\* SetElementOpacity: the property writes it gets the host to make for one element
SetElementOpacity(h, opacity) == Written(SetElementOpacitySteps(h, opacity))

\* The switch giving a stroke the opacity of a fill under Acrylic
OpacityForIgnoringStroke(mode, isStroke) ==
    CASE mode = MODE_TRANSPARENT -> 0
      [] mode = MODE_ACRYLIC -> 300000
      [] OTHER -> 1000000

\* The opacity ApplyToElement chooses in its switch (initialised to 1.0)
OpacityFor(mode, isStroke) ==
    CASE mode = MODE_TRANSPARENT -> 0
      [] mode = MODE_ACRYLIC -> IF isStroke THEN 0 ELSE 300000
      [] OTHER -> 1000000

\* ApplyToElement: resolve the handle, choose the opacity, write it, release
ApplyToElementSteps(h, mode, isStroke) ==
    IF Fails(h, "GetIInspectableFromHandle")
    THEN <<Step("GetIInspectableFromHandle", h, FALSE)>>
    ELSE <<Step("GetIInspectableFromHandle", h, TRUE)>>
         \o SetElementOpacitySteps(h, OpacityFor(mode, isStroke))
         \o <<Step("Release", h, TRUE)>>

\* ApplyToElement: the property writes of one invocation
ApplyToElement(h, mode, isStroke) == Written(ApplyToElementSteps(h, mode, isStroke))

Call(h, mode, isStroke) == [handle |-> h, mode |-> mode, isStroke |-> isStroke]

\* The loop of ApplyMode from row i (0-based) on: the mutator invocations it makes
RECURSIVE ApplyModeLoop(_, _, _, _)
ApplyModeLoop(tracked, count, i, mode) ==
    IF ~(i < count) THEN <<>>
    ELSE IF ~tracked[i + 1].active \/ tracked[i + 1].handle = 0
    THEN ApplyModeLoop(tracked, count, i + 1, mode)
    ELSE <<Call(tracked[i + 1].handle, mode, tracked[i + 1].isStroke)>>
         \o ApplyModeLoop(tracked, count, i + 1, mode)

\* ApplyMode run over the rows counted before the newest one
ApplyModeButNewest(tracked, count, mode) == ApplyModeLoop(tracked, count - 1, 0, mode)

\* ApplyMode over a table: its mutator invocations
ApplyMode(tracked, count, mode) == ApplyModeLoop(tracked, count, 0, mode)

\* The remote operations of a sequence of mutator invocations
RECURSIVE OpsOf(_)
OpsOf(cs) ==
    IF cs = <<>> THEN <<>>
    ELSE ApplyToElement(Head(cs).handle, Head(cs).mode, Head(cs).isStroke) \o OpsOf(Tail(cs))

\* All steps of a sequence of mutator invocations
RECURSIVE StepsOf(_)
StepsOf(cs) ==
    IF cs = <<>> THEN <<>>
    ELSE ApplyToElementSteps(Head(cs).handle, Head(cs).mode, Head(cs).isStroke)
         \o StepsOf(Tail(cs))

----------------------------------------------------------------------------
(* Tracked-element table (ShellTAP) *)

\* memset(m_tracked, 0, sizeof(m_tracked)): a row not yet in use; no loop reads it
ZeroRow == [handle |-> 0, name |-> EMPTY, type |-> EMPTY, isStroke |-> FALSE, active |-> FALSE]

Op(op, h, mode) == [op |-> op, handle |-> h, mode |-> mode]

\* The Remove loop leaving at its first hit
RemoveFirstRow(tracked, count, h) ==
    LET hits == {i \in 1..count : tracked[i].handle = h}
    IN  [i \in 1..count |->
            IF hits # {} /\ i = CHOOSE k \in hits : \A j \in hits : k <= j
            THEN [tracked[i] EXCEPT !.active = FALSE, !.handle = 0]
            ELSE tracked[i]]

\* The Remove loop with its comparison inverted
RemoveOtherRows(tracked, count, h) ==
    [i \in 1..count |->
        IF tracked[i].handle # h
        THEN [tracked[i] EXCEPT !.active = FALSE, !.handle = 0]
        ELSE tracked[i]]

\* The Remove loop: every row in use that holds the handle is cleared
RemoveRows(tracked, count, h) ==
    [i \in 1..count |->
        IF tracked[i].handle = h
        THEN [tracked[i] EXCEPT !.active = FALSE, !.handle = 0]
        ELSE tracked[i]]

\* The row an Add stores in its slot
NewRow(h, name, type, isStroke) ==
    [handle |-> h, name |-> wcsncpy_s(name, NAME_CHARS), type |-> wcsncpy_s(type, TYPE_CHARS),
     isStroke |-> isStroke, active |-> TRUE]

\* The guard of the targeting branch of an Add
TargetedAlways(name, type) == name # NULL /\ type # NULL
Targeted(name, type) == ~g_discoveryMode /\ name # NULL /\ type # NULL

\* The capacity check of an Add
HasRoomInclusive(count) == count <= MAX_TRACKED
HasRoom(count) == count < MAX_TRACKED

\* OnVisualTreeChange(relation, element, Add)
OnVisualTreeChange_Add(h) ==
    LET e == ElementOf(h)
        m == MatchesTarget(e.name, e.type)
        insert == Targeted(e.name, e.type) /\ m.matched /\ HasRoom(m_trackedCount)
        table == Append(m_tracked, NewRow(h, e.name, e.type, m.isStroke))
        cs == IF g_mode # MODE_DEFAULT THEN ApplyMode(table, m_trackedCount + 1, g_mode) ELSE <<>>
    IN  /\ variant = "ShellTAP"
        /\ IF insert
           THEN /\ m_tracked' = table
                /\ m_trackedCount' = m_trackedCount + 1
                /\ calls' = cs
                /\ ops' = OpsOf(cs)
                /\ xaml' = Exec(xaml, OpsOf(cs))
           ELSE /\ calls' = <<>>
                /\ ops' = <<>>
                /\ UNCHANGED <<m_tracked, m_trackedCount, xaml>>
        /\ ret' = S_OK
        /\ lastOp' = Op("Add", h, g_mode)
        /\ nAdds' = nAdds + 1
        /\ UNCHANGED <<site, pc, variant, g_config, g_discoveryMode, g_mode, g_pSharedMode,
                       taskbarVars>>

\* The Remove branch giving back the last row when it held the handle
OnVisualTreeChange_RemovePop(h) ==
    LET cleared == RemoveRows(m_tracked, m_trackedCount, h)
        pop == m_trackedCount > 0 /\ m_tracked[m_trackedCount].handle = h
    IN  /\ variant = "ShellTAP"
        /\ m_tracked' = IF pop THEN SubSeq(cleared, 1, m_trackedCount - 1) ELSE cleared
        /\ m_trackedCount' = IF pop THEN m_trackedCount - 1 ELSE m_trackedCount
        /\ calls' = <<>>
        /\ ops' = <<>>
        /\ ret' = S_OK
        /\ lastOp' = Op("Remove", h, g_mode)
        /\ UNCHANGED <<site, pc, variant, g_config, g_discoveryMode, g_mode, g_pSharedMode,
                       xaml, nAdds, taskbarVars>>

\* OnVisualTreeChange(relation, element, Remove)
OnVisualTreeChange_Remove(h) ==
    /\ variant = "ShellTAP"
    /\ m_tracked' = RemoveRows(m_tracked, m_trackedCount, h)
    /\ calls' = <<>>
    /\ ops' = <<>>
    /\ ret' = S_OK
    /\ lastOp' = Op("Remove", h, g_mode)
    /\ UNCHANGED <<site, pc, variant, g_config, g_discoveryMode, g_mode, g_pSharedMode,
                   m_trackedCount, xaml, nAdds, taskbarVars>>

\* SetShellTAPMode checking only the lower limit of its argument
SetShellTAPModeNoUpper(mode) ==
    /\ variant = "ShellTAP"
    /\ IF mode < 0
       THEN /\ ret' = E_INVALIDARG
            /\ calls' = <<>>
            /\ ops' = <<>>
            /\ UNCHANGED <<g_mode, g_pSharedMode, xaml>>
       ELSE LET cs == ApplyMode(m_tracked, m_trackedCount, mode)
            IN  /\ g_mode' = mode
                /\ g_pSharedMode' = IF g_pSharedMode # <<>> THEN <<mode>> ELSE g_pSharedMode
                /\ calls' = cs
                /\ ops' = OpsOf(cs)
                /\ xaml' = Exec(xaml, OpsOf(cs))
                /\ ret' = S_OK
    /\ lastOp' = Op("SetMode", 0, mode)
    /\ UNCHANGED <<site, pc, variant, g_config, g_discoveryMode, m_tracked, m_trackedCount,
                   nAdds, taskbarVars>>

\* SetShellTAPMode returning early when the mode is already current
SetShellTAPModeSkipSame(mode) ==
    /\ variant = "ShellTAP"
    /\ IF mode < 0 \/ mode > 2
       THEN /\ ret' = E_INVALIDARG
            /\ calls' = <<>>
            /\ ops' = <<>>
            /\ UNCHANGED <<g_mode, g_pSharedMode, xaml>>
       ELSE LET cs == IF mode = g_mode THEN <<>> ELSE ApplyMode(m_tracked, m_trackedCount, mode)
            IN  /\ g_mode' = mode
                /\ g_pSharedMode' = IF g_pSharedMode # <<>> THEN <<mode>> ELSE g_pSharedMode
                /\ calls' = cs
                /\ ops' = OpsOf(cs)
                /\ xaml' = Exec(xaml, OpsOf(cs))
                /\ ret' = S_OK
    /\ lastOp' = Op("SetMode", 0, mode)
    /\ UNCHANGED <<site, pc, variant, g_config, g_discoveryMode, m_tracked, m_trackedCount,
                   nAdds, taskbarVars>>

\* SetShellTAPMode(mode)
SetShellTAPMode(mode) ==
    /\ variant = "ShellTAP"
    /\ IF mode < 0 \/ mode > 2
       THEN /\ ret' = E_INVALIDARG
            /\ calls' = <<>>
            /\ ops' = <<>>
            /\ UNCHANGED <<g_mode, g_pSharedMode, xaml>>
       ELSE LET cs == ApplyMode(m_tracked, m_trackedCount, mode)
            IN  /\ g_mode' = mode
                /\ g_pSharedMode' = IF g_pSharedMode # <<>> THEN <<mode>> ELSE g_pSharedMode
                /\ calls' = cs
                /\ ops' = OpsOf(cs)
                /\ xaml' = Exec(xaml, OpsOf(cs))
                /\ ret' = S_OK
    /\ lastOp' = Op("SetMode", 0, mode)
    /\ UNCHANGED <<site, pc, variant, g_config, g_discoveryMode, m_tracked, m_trackedCount,
                   nAdds, taskbarVars>>

----------------------------------------------------------------------------
(* Property mutator (TaskbarTAP) *)

\* SetRectangleOpacity that skips the releases when no value could be created
SetRectangleOpacityStepsLeaky(h, opacity) ==
    LET props == ElementOf(h).props
        getHandle == <<Step("GetHandleFromIInspectable", h, ~Fails(h, "GetHandleFromIInspectable"))>>
        chain == <<Step("GetPropertyValuesChain", h, ~Fails(h, "GetPropertyValuesChain"))>>
        opacitySteps ==
            IF pOpacity \in props
            THEN <<Step("CreateInstance(Double)", h, ~Fails(h, "CreateInstance(Double)"))>>
                 \o (IF ~Fails(h, "CreateInstance(Double)")
                     THEN <<SetPropertyStep(h, CreateInstance(sDouble, to_wstring(opacity)),
                                            pOpacity, ~Fails(h, "SetProperty(Opacity)"))>>
                     ELSE <<>>)
            ELSE <<>>
        fillSteps ==
            IF pFill \in props /\ opacity < 1000000
            THEN <<Step("CreateInstance(SolidColorBrush)", h,
                        ~Fails(h, "CreateInstance(SolidColorBrush)"))>>
                 \o (IF ~Fails(h, "CreateInstance(SolidColorBrush)")
                     THEN <<SetPropertyStep(h, CreateInstance(sSolidColorBrush, sTransparent),
                                            pFill, ~Fails(h, "SetProperty(Fill)"))>>
                     ELSE <<>>)
            ELSE <<>>
        free == IF Fails(h, "CreateInstance(Double)") \/ Fails(h, "CreateInstance(SolidColorBrush)")
                THEN <<>>
                ELSE <<Step("FreeValues", h, TRUE), Step("FreeSources", h, TRUE)>>
    IN  IF Fails(h, "GetHandleFromIInspectable") THEN getHandle
        ELSE IF Fails(h, "GetPropertyValuesChain") THEN getHandle \o chain
        ELSE getHandle \o chain \o opacitySteps \o fillSteps \o free

\* SetRectangleOpacity: its remote calls and releases for one element, in order
SetRectangleOpacitySteps(h, opacity) ==
    LET props == ElementOf(h).props
        getHandle == <<Step("GetHandleFromIInspectable", h, ~Fails(h, "GetHandleFromIInspectable"))>>
        chain == <<Step("GetPropertyValuesChain", h, ~Fails(h, "GetPropertyValuesChain"))>>
        opacitySteps ==
            IF pOpacity \in props
            THEN <<Step("CreateInstance(Double)", h, ~Fails(h, "CreateInstance(Double)"))>>
                 \o (IF ~Fails(h, "CreateInstance(Double)")
                     THEN <<SetPropertyStep(h, CreateInstance(sDouble, to_wstring(opacity)),
                                            pOpacity, ~Fails(h, "SetProperty(Opacity)"))>>
                     ELSE <<>>)
            ELSE <<>>
        fillSteps ==
            IF pFill \in props /\ opacity < 1000000
            THEN <<Step("CreateInstance(SolidColorBrush)", h,
                        ~Fails(h, "CreateInstance(SolidColorBrush)"))>>
                 \o (IF ~Fails(h, "CreateInstance(SolidColorBrush)")
                     THEN <<SetPropertyStep(h, CreateInstance(sSolidColorBrush, sTransparent),
                                            pFill, ~Fails(h, "SetProperty(Fill)"))>>
                     ELSE <<>>)
            ELSE <<>>
        free == <<Step("FreeValues", h, TRUE), Step("FreeSources", h, TRUE)>>
    IN  IF Fails(h, "GetHandleFromIInspectable") THEN getHandle
        ELSE IF Fails(h, "GetPropertyValuesChain") THEN getHandle \o chain
        ELSE getHandle \o chain \o opacitySteps \o fillSteps \o free

\* SetRectangleOpacity: the property writes it gets the host to make for one element
SetRectangleOpacity(h, opacity) == Written(SetRectangleOpacitySteps(h, opacity))

\* ApplyToRectangle: resolve the handle, write the opacity of the appearance, release
ApplyToRectangleSteps(h, appearance, isStroke) ==
    IF Fails(h, "GetIInspectableFromHandle")
    THEN <<Step("GetIInspectableFromHandle", h, FALSE)>>
    ELSE <<Step("GetIInspectableFromHandle", h, TRUE)>>
         \o (IF appearance = APPEARANCE_TRANSPARENT
                \/ (appearance = APPEARANCE_ACRYLIC /\ isStroke)
             THEN SetRectangleOpacitySteps(h, 0)
             ELSE IF appearance = APPEARANCE_ACRYLIC /\ ~isStroke
             THEN SetRectangleOpacitySteps(h, 300000)
             ELSE IF appearance = APPEARANCE_DEFAULT
             THEN SetRectangleOpacitySteps(h, 1000000)
             ELSE <<>>)
         \o <<Step("Release", h, TRUE)>>

\* ApplyToRectangle: the property writes of one invocation
ApplyToRectangle(h, appearance, isStroke) == Written(ApplyToRectangleSteps(h, appearance, isStroke))

\* The loop of ApplyAppearance from row i (0-based) on: the mutator invocations
RECURSIVE ApplyAppearanceLoop(_, _, _, _)
ApplyAppearanceLoop(taskbars, count, i, appearance) ==
    IF ~(i < count) THEN <<>>
    ELSE IF ~taskbars[i + 1].active
    THEN ApplyAppearanceLoop(taskbars, count, i + 1, appearance)
    ELSE LET bgFill == taskbars[i + 1].backgroundFill
             bgStroke == taskbars[i + 1].backgroundStroke
         IN  (IF bgFill # 0 THEN <<Call(bgFill, appearance, FALSE)>> ELSE <<>>)
             \o (IF bgStroke # 0 THEN <<Call(bgStroke, appearance, TRUE)>> ELSE <<>>)
             \o ApplyAppearanceLoop(taskbars, count, i + 1, appearance)

ApplyAppearance(taskbars, count, appearance) == ApplyAppearanceLoop(taskbars, count, 0, appearance)

RECURSIVE RectOpsOf(_)
RectOpsOf(cs) ==
    IF cs = <<>> THEN <<>>
    ELSE ApplyToRectangle(Head(cs).handle, Head(cs).mode, Head(cs).isStroke) \o RectOpsOf(Tail(cs))

\* All steps of a sequence of mutator invocations
RECURSIVE RectStepsOf(_)
RectStepsOf(cs) ==
    IF cs = <<>> THEN <<>>
    ELSE ApplyToRectangleSteps(Head(cs).handle, Head(cs).mode, Head(cs).isStroke)
         \o RectStepsOf(Tail(cs))

----------------------------------------------------------------------------
(* Taskbar table (TaskbarTAP) *)

\* memset(m_taskbars, 0, sizeof(m_taskbars)): a row not yet in use; no loop reads it
ZeroTaskbar == [backgroundFill |-> 0, backgroundStroke |-> 0, taskbarFrame |-> 0, active |-> FALSE]

isBackgroundFill(e) == wcscmp0(e.name, sBackgroundFill) /\ wcsstr(e.type, sRectangle)
isBackgroundStroke(e) == wcscmp0(e.name, sBackgroundStroke) /\ wcsstr(e.type, sRectangle)
isTaskbarFrame(e) == wcsstr(e.type, sTaskbarFrame)

\* The slot search without its test of the active flag
FreeSlotsAnyRow(taskbars, count, e) ==
    { i \in 0..(count - 1) :
        \/ isBackgroundFill(e) /\ taskbars[i + 1].backgroundFill = 0
        \/ isBackgroundStroke(e) /\ taskbars[i + 1].backgroundStroke = 0 }

\* The slot search of an Add: rows (0-based) with the wanted component empty
FreeSlots(taskbars, count, e) ==
    { i \in 0..(count - 1) :
        /\ taskbars[i + 1].active
        /\ \/ isBackgroundFill(e) /\ taskbars[i + 1].backgroundFill = 0
           \/ isBackgroundStroke(e) /\ taskbars[i + 1].backgroundStroke = 0 }

SetMin(S) == CHOOSE x \in S : \A y \in S : x <= y

\* The slot search taking the first active row whether its component is empty or not
FindSlotFirstActive(taskbars, count, e) ==
    LET live == {i \in 0..(count - 1) : taskbars[i + 1].active}
    IN  IF (isBackgroundFill(e) \/ isBackgroundStroke(e)) /\ live # {}
        THEN SetMin(live)
        ELSE -1

\* The slot search falling back on the first row that is inactive
FindSlotReclaiming(taskbars, count, e) ==
    LET dead == {i \in 0..(count - 1) : ~taskbars[i + 1].active}
    IN  IF (isBackgroundFill(e) \/ isBackgroundStroke(e)) /\ FreeSlots(taskbars, count, e) # {}
        THEN SetMin(FreeSlots(taskbars, count, e))
        ELSE IF dead # {} THEN SetMin(dead) ELSE -1

\* The slot an Add uses: -1 when it has none
FindSlot(taskbars, count, e) ==
    IF (isBackgroundFill(e) \/ isBackgroundStroke(e)) /\ FreeSlots(taskbars, count, e) # {}
    THEN SetMin(FreeSlots(taskbars, count, e))
    ELSE -1

\* The component of the row that takes the handle
StoreHandle(row, e, h) ==
    IF isBackgroundFill(e) THEN [row EXCEPT !.backgroundFill = h]
    ELSE IF isBackgroundStroke(e) THEN [row EXCEPT !.backgroundStroke = h]
    ELSE IF isTaskbarFrame(e) THEN [row EXCEPT !.taskbarFrame = h]
    ELSE row

\* OnVisualTreeChange(relation, element, Add)
TaskbarOnVisualTreeChange_Add(h) ==
    LET e == ElementOf(h)
        wanted == /\ e.name # NULL /\ e.type # NULL
                  /\ (isBackgroundFill(e) \/ isBackgroundStroke(e) \/ isTaskbarFrame(e))
        found == FindSlot(m_taskbars, m_taskbarCount, e)
        fresh == found < 0 /\ m_taskbarCount < MAX_TASKBARS
        slot == IF fresh THEN m_taskbarCount ELSE found
        count == IF fresh THEN m_taskbarCount + 1 ELSE m_taskbarCount
        base == IF fresh
                THEN Append(m_taskbars, [ZeroTaskbar EXCEPT !.active = TRUE])
                ELSE m_taskbars
        table == [base EXCEPT ![slot + 1] = StoreHandle(base[slot + 1], e, h)]
        cs == IF g_appearance # APPEARANCE_DEFAULT
              THEN ApplyAppearance(table, count, g_appearance) ELSE <<>>
    IN  /\ variant = "TaskbarTAP"
        /\ IF wanted /\ slot >= 0
           THEN /\ m_taskbars' = table
                /\ m_taskbarCount' = count
                /\ calls' = cs
                /\ ops' = RectOpsOf(cs)
                /\ xaml' = Exec(xaml, RectOpsOf(cs))
           ELSE /\ calls' = <<>>
                /\ ops' = <<>>
                /\ UNCHANGED <<m_taskbars, m_taskbarCount, xaml>>
        /\ ret' = S_OK
        /\ lastOp' = Op("Add", h, g_appearance)
        /\ nAdds' = nAdds + 1
        /\ UNCHANGED <<site, pc, variant, g_appearance, g_pSharedMode, shellVars>>

\* The Remove loop body that looks at the two rectangles only
RemoveFromTaskbarIgnoringFrame(row, h) ==
    LET cleared == [row EXCEPT
                      !.backgroundFill = IF @ = h THEN 0 ELSE @,
                      !.backgroundStroke = IF @ = h THEN 0 ELSE @,
                      !.taskbarFrame = IF @ = h THEN 0 ELSE @]
    IN  IF cleared.active /\ cleared.backgroundFill = 0 /\ cleared.backgroundStroke = 0
        THEN [cleared EXCEPT !.active = FALSE]
        ELSE cleared

\* One row after the Remove loop body
RemoveFromTaskbar(row, h) ==
    LET cleared == [row EXCEPT
                      !.backgroundFill = IF @ = h THEN 0 ELSE @,
                      !.backgroundStroke = IF @ = h THEN 0 ELSE @,
                      !.taskbarFrame = IF @ = h THEN 0 ELSE @]
    IN  IF cleared.active /\ cleared.backgroundFill = 0 /\ cleared.backgroundStroke = 0
           /\ cleared.taskbarFrame = 0
        THEN [cleared EXCEPT !.active = FALSE]
        ELSE cleared

\* OnVisualTreeChange(relation, element, Remove)
TaskbarOnVisualTreeChange_Remove(h) ==
    /\ variant = "TaskbarTAP"
    /\ m_taskbars' = [i \in 1..m_taskbarCount |-> RemoveFromTaskbar(m_taskbars[i], h)]
    /\ calls' = <<>>
    /\ ops' = <<>>
    /\ ret' = S_OK
    /\ lastOp' = Op("Remove", h, g_appearance)
    /\ UNCHANGED <<site, pc, variant, g_appearance, g_pSharedMode, m_taskbarCount, xaml, nAdds, shellVars>>

\* The body shared by the three exported setters
SetTaskbar(appearance) ==
    LET cs == ApplyAppearance(m_taskbars, m_taskbarCount, appearance)
    IN  /\ variant = "TaskbarTAP"
        /\ g_appearance' = appearance
        /\ calls' = cs
        /\ ops' = RectOpsOf(cs)
        /\ xaml' = Exec(xaml, RectOpsOf(cs))
        /\ ret' = S_OK
        /\ lastOp' = Op("SetMode", 0, appearance)
        /\ UNCHANGED <<site, pc, variant, g_pSharedMode, m_taskbars, m_taskbarCount,
                       nAdds, shellVars>>

SetTaskbarTransparent == SetTaskbar(APPEARANCE_TRANSPARENT)
SetTaskbarAcrylic == SetTaskbar(APPEARANCE_ACRYLIC)
SetTaskbarDefault == SetTaskbar(APPEARANCE_DEFAULT)

----------------------------------------------------------------------------
(* Mode channel *)

\* Values the external controller may store in the shared word
ControllerValues == -1..3
\* Arguments the controller may pass to SetShellTAPMode
SetModeArgs == -1..3

\* The external controller writing the shared word
ControllerWrite(v) ==
    /\ g_pSharedMode # <<>>
    /\ g_pSharedMode # <<v>>
    /\ g_pSharedMode' = <<v>>
    /\ calls' = <<>>
    /\ ops' = <<>>
    /\ lastOp' = Op("Write", 0, v)
    /\ UNCHANGED <<site, pc, variant, xaml, ret, nAdds, shellVars, taskbarVars>>

\* The poll tick without the range check on the value read
MonitorThreadNoRange ==
    LET newMode == g_pSharedMode[1]
        cs == ApplyMode(m_tracked, m_trackedCount, newMode)
    IN  /\ variant = "ShellTAP"
        /\ g_pSharedMode # <<>>
        /\ IF newMode # g_mode
           THEN /\ g_mode' = newMode
                /\ calls' = cs
                /\ ops' = OpsOf(cs)
                /\ xaml' = Exec(xaml, OpsOf(cs))
           ELSE /\ calls' = <<>>
                /\ ops' = <<>>
                /\ UNCHANGED <<g_mode, xaml>>
        /\ lastOp' = Op("Poll", 0, newMode)
        /\ UNCHANGED <<site, pc, variant, g_config, g_discoveryMode, g_pSharedMode, m_tracked,
                       m_trackedCount, ret, nAdds, taskbarVars>>

\* The poll tick storing the new mode without applying it
MonitorThreadNoApply ==
    LET newMode == g_pSharedMode[1]
    IN  /\ variant = "ShellTAP"
        /\ g_pSharedMode # <<>>
        /\ IF newMode >= 0 /\ newMode <= 2 /\ newMode # g_mode
           THEN g_mode' = newMode
           ELSE UNCHANGED g_mode
        /\ calls' = <<>>
        /\ ops' = <<>>
        /\ lastOp' = Op("Poll", 0, newMode)
        /\ UNCHANGED <<site, pc, variant, g_config, g_discoveryMode, g_pSharedMode, m_tracked,
                       m_trackedCount, xaml, ret, nAdds, taskbarVars>>

\* One iteration of the loop of MonitorThread (ShellTAP)
MonitorThread ==
    LET newMode == g_pSharedMode[1]
        cs == ApplyMode(m_tracked, m_trackedCount, newMode)
    IN  /\ variant = "ShellTAP"
        /\ g_pSharedMode # <<>>
        /\ IF newMode >= 0 /\ newMode <= 2 /\ newMode # g_mode
           THEN /\ g_mode' = newMode
                /\ calls' = cs
                /\ ops' = OpsOf(cs)
                /\ xaml' = Exec(xaml, OpsOf(cs))
           ELSE /\ calls' = <<>>
                /\ ops' = <<>>
                /\ UNCHANGED <<g_mode, xaml>>
        /\ lastOp' = Op("Poll", 0, newMode)
        /\ UNCHANGED <<site, pc, variant, g_config, g_discoveryMode, g_pSharedMode, m_tracked,
                       m_trackedCount, ret, nAdds, taskbarVars>>

\* One iteration of the loop of MonitorThread (TaskbarTAP)
TaskbarMonitorThread ==
    LET newMode == g_pSharedMode[1]
        cs == ApplyAppearance(m_taskbars, m_taskbarCount, newMode)
    IN  /\ variant = "TaskbarTAP"
        /\ g_pSharedMode # <<>>
        /\ IF newMode >= 0 /\ newMode <= 2 /\ newMode # g_appearance
           THEN /\ g_appearance' = newMode
                /\ calls' = cs
                /\ ops' = RectOpsOf(cs)
                /\ xaml' = Exec(xaml, RectOpsOf(cs))
           ELSE /\ calls' = <<>>
                /\ ops' = <<>>
                /\ UNCHANGED <<g_appearance, xaml>>
        /\ lastOp' = Op("Poll", 0, newMode)
        /\ UNCHANGED <<site, pc, variant, g_pSharedMode, m_taskbars, m_taskbarCount, ret,
                       nAdds, shellVars>>

----------------------------------------------------------------------------
(* The handlers of ShellTAP as their threads execute them: the event thread  *)
(* (OnVisualTreeChange), the poll thread (MonitorThread) and the thread of a *)
(* direct SetShellTAPMode caller.  No handler takes a lock, so every step   *)
(* below is enabled wherever the other threads stand.                        *)

\* Every thread outside the handlers
Outside == [event |-> <<>>, poll |-> <<>>, caller |-> <<>>]

\* Event thread, Add: the guard, the matcher and `slot = m_trackedCount++`
OnVisualTreeChange_AddSlot(h) ==
    LET e == ElementOf(h)
        m == MatchesTarget(e.name, e.type)
        insert == Targeted(e.name, e.type) /\ m.matched /\ HasRoom(m_trackedCount)
    IN  /\ variant = "ShellTAP"
        /\ pc.event = <<>>
        /\ IF insert
           THEN /\ m_trackedCount' = m_trackedCount + 1
                /\ m_tracked' = Append(m_tracked, ZeroRow)
                /\ pc' = [pc EXCEPT !.event = <<[handle |-> h, slot |-> m_trackedCount,
                                                  isStroke |-> m.isStroke]>>]
                /\ UNCHANGED ret
                /\ lastOp' = Op("AddSlot", h, g_mode)
           ELSE /\ ret' = S_OK
                /\ lastOp' = Op("Add", h, g_mode)
                /\ UNCHANGED <<m_tracked, m_trackedCount, pc>>
        /\ calls' = <<>>
        /\ ops' = <<>>
        /\ nAdds' = nAdds + 1
        /\ UNCHANGED <<site, variant, g_config, g_discoveryMode, g_mode, g_pSharedMode, xaml,
                       taskbarVars>>

\* Event thread, Add: the row is stored, the current mode applied, S_OK returned
OnVisualTreeChange_AddStore ==
    LET at == pc.event[1]
        e == ElementOf(at.handle)
        table == [m_tracked EXCEPT ![at.slot + 1] =
                     NewRow(at.handle, e.name, e.type, at.isStroke)]
        cs == IF g_mode # MODE_DEFAULT THEN ApplyMode(table, m_trackedCount, g_mode) ELSE <<>>
    IN  /\ variant = "ShellTAP"
        /\ pc.event # <<>>
        /\ m_tracked' = table
        /\ calls' = cs
        /\ ops' = OpsOf(cs)
        /\ xaml' = Exec(xaml, OpsOf(cs))
        /\ ret' = S_OK
        /\ lastOp' = Op("Add", at.handle, g_mode)
        /\ pc' = [pc EXCEPT !.event = <<>>]
        /\ UNCHANGED <<site, variant, g_config, g_discoveryMode, g_mode, g_pSharedMode,
                       m_trackedCount, nAdds, taskbarVars>>

\* Poll thread: the shared word is read and compared with the mode
MonitorThread_Read ==
    LET newMode == g_pSharedMode[1]
    IN  /\ variant = "ShellTAP"
        /\ pc.poll = <<>>
        /\ g_pSharedMode # <<>>
        /\ pc' = IF newMode >= 0 /\ newMode <= 2 /\ newMode # g_mode
                 THEN [pc EXCEPT !.poll = <<[mode |-> newMode]>>]
                 ELSE pc
        /\ calls' = <<>>
        /\ ops' = <<>>
        /\ lastOp' = Op("PollRead", 0, newMode)
        /\ UNCHANGED <<site, variant, g_config, g_discoveryMode, g_mode, g_pSharedMode, m_tracked,
                       m_trackedCount, xaml, ret, nAdds, taskbarVars>>

\* Poll thread: the mode read is stored and applied
MonitorThread_Apply ==
    LET newMode == pc.poll[1].mode
        cs == ApplyMode(m_tracked, m_trackedCount, newMode)
    IN  /\ variant = "ShellTAP"
        /\ pc.poll # <<>>
        /\ g_mode' = newMode
        /\ calls' = cs
        /\ ops' = OpsOf(cs)
        /\ xaml' = Exec(xaml, OpsOf(cs))
        /\ lastOp' = Op("Poll", 0, newMode)
        /\ pc' = [pc EXCEPT !.poll = <<>>]
        /\ UNCHANGED <<site, variant, g_config, g_discoveryMode, g_pSharedMode, m_tracked,
                       m_trackedCount, ret, nAdds, taskbarVars>>

\* Caller thread with the shared word left unwritten
SetShellTAPMode_WriteModeOnly(mode) ==
    /\ variant = "ShellTAP"
    /\ pc.caller = <<>>
    /\ IF mode < 0 \/ mode > 2
       THEN /\ ret' = E_INVALIDARG
            /\ lastOp' = Op("SetMode", 0, mode)
            /\ UNCHANGED <<g_mode, g_pSharedMode, pc>>
       ELSE /\ g_mode' = mode
            /\ UNCHANGED g_pSharedMode
            /\ pc' = [pc EXCEPT !.caller = <<[mode |-> mode]>>]
            /\ lastOp' = Op("SetModeWrite", 0, mode)
            /\ UNCHANGED ret
    /\ calls' = <<>>
    /\ ops' = <<>>
    /\ UNCHANGED <<site, variant, g_config, g_discoveryMode, m_tracked, m_trackedCount, xaml,
                   nAdds, taskbarVars>>

\* Caller thread: the argument check, then g_mode and the shared word are written
SetShellTAPMode_Write(mode) ==
    /\ variant = "ShellTAP"
    /\ pc.caller = <<>>
    /\ IF mode < 0 \/ mode > 2
       THEN /\ ret' = E_INVALIDARG
            /\ lastOp' = Op("SetMode", 0, mode)
            /\ UNCHANGED <<g_mode, g_pSharedMode, pc>>
       ELSE /\ g_mode' = mode
            /\ g_pSharedMode' = IF g_pSharedMode # <<>> THEN <<mode>> ELSE g_pSharedMode
            /\ pc' = [pc EXCEPT !.caller = <<[mode |-> mode]>>]
            /\ lastOp' = Op("SetModeWrite", 0, mode)
            /\ UNCHANGED ret
    /\ calls' = <<>>
    /\ ops' = <<>>
    /\ UNCHANGED <<site, variant, g_config, g_discoveryMode, m_tracked, m_trackedCount, xaml,
                   nAdds, taskbarVars>>

\* Caller thread: ApplyMode(g_mode) and the return of S_OK
SetShellTAPMode_Apply ==
    LET cs == ApplyMode(m_tracked, m_trackedCount, g_mode)
    IN  /\ variant = "ShellTAP"
        /\ pc.caller # <<>>
        /\ calls' = cs
        /\ ops' = OpsOf(cs)
        /\ xaml' = Exec(xaml, OpsOf(cs))
        /\ ret' = S_OK
        /\ lastOp' = Op("SetMode", 0, pc.caller[1].mode)
        /\ pc' = [pc EXCEPT !.caller = <<>>]
        /\ UNCHANGED <<site, variant, g_config, g_discoveryMode, g_mode, g_pSharedMode, m_tracked,
                       m_trackedCount, nAdds, taskbarVars>>

\* Event thread, Add: the row is stored and `g_mode != MODE_DEFAULT` evaluated;
\* with a mode other than Default the argument of ApplyMode(g_mode) is read
OnVisualTreeChange_AddRead ==
    LET at == pc.event[1]
        e == ElementOf(at.handle)
    IN  /\ variant = "ShellTAP"
        /\ pc.event # <<>>
        /\ "slot" \in DOMAIN at
        /\ m_tracked' = [m_tracked EXCEPT ![at.slot + 1] =
                            NewRow(at.handle, e.name, e.type, at.isStroke)]
        /\ IF g_mode # MODE_DEFAULT
           THEN /\ pc' = [pc EXCEPT !.event = <<[handle |-> at.handle, mode |-> g_mode]>>]
                /\ lastOp' = Op("AddRead", at.handle, g_mode)
                /\ UNCHANGED ret
           ELSE /\ pc' = [pc EXCEPT !.event = <<>>]
                /\ lastOp' = Op("Add", at.handle, g_mode)
                /\ ret' = S_OK
        /\ calls' = <<>>
        /\ ops' = <<>>
        /\ UNCHANGED <<site, variant, g_config, g_discoveryMode, g_mode, g_pSharedMode,
                       m_trackedCount, xaml, nAdds, taskbarVars>>

\* Event thread, Add: the loop of ApplyMode with the mode it was called with
OnVisualTreeChange_AddApply ==
    LET at == pc.event[1]
        cs == ApplyMode(m_tracked, m_trackedCount, at.mode)
    IN  /\ variant = "ShellTAP"
        /\ pc.event # <<>>
        /\ "mode" \in DOMAIN at
        /\ calls' = cs
        /\ ops' = OpsOf(cs)
        /\ xaml' = Exec(xaml, OpsOf(cs))
        /\ ret' = S_OK
        /\ lastOp' = Op("Add", at.handle, at.mode)
        /\ pc' = [pc EXCEPT !.event = <<>>]
        /\ UNCHANGED <<site, variant, g_config, g_discoveryMode, g_mode, g_pSharedMode,
                       m_tracked, m_trackedCount, nAdds, taskbarVars>>

\* Poll thread: the mode read is stored and ApplyMode entered, its loop at row 0
ApplyMode_Enter ==
    LET newMode == pc.poll[1].mode
    IN  /\ variant = "ShellTAP"
        /\ pc.poll # <<>>
        /\ "i" \notin DOMAIN pc.poll[1]
        /\ g_mode' = newMode
        /\ pc' = [pc EXCEPT !.poll = <<[mode |-> newMode, i |-> 0, checked |-> FALSE,
                                         seen |-> 0]>>]
        /\ calls' = <<>>
        /\ ops' = <<>>
        /\ lastOp' = Op("PollEnter", 0, newMode)
        /\ UNCHANGED <<site, variant, g_config, g_discoveryMode, g_pSharedMode, m_tracked,
                       m_trackedCount, xaml, ret, nAdds, taskbarVars>>

\* Poll thread, loop of ApplyMode: `if (!m_tracked[i].active || m_tracked[i].handle == 0)
\* continue;` seen is the handle that test has read
ApplyMode_Check ==
    LET at == pc.poll[1]
        row == m_tracked[at.i + 1]
    IN  /\ variant = "ShellTAP"
        /\ pc.poll # <<>>
        /\ "i" \in DOMAIN at
        /\ ~at.checked
        /\ at.i < m_trackedCount
        /\ pc' = IF ~row.active \/ row.handle = 0
                 THEN [pc EXCEPT !.poll = <<[at EXCEPT !.i = @ + 1]>>]
                 ELSE [pc EXCEPT !.poll = <<[at EXCEPT !.checked = TRUE, !.seen = row.handle]>>]
        /\ calls' = <<>>
        /\ ops' = <<>>
        /\ lastOp' = Op("PollCheck", row.handle, at.mode)
        /\ UNCHANGED <<site, variant, g_config, g_discoveryMode, g_mode, g_pSharedMode,
                       m_tracked, m_trackedCount, xaml, ret, nAdds, taskbarVars>>

\* Poll thread, loop of ApplyMode: ApplyToElement(m_tracked[i].handle, mode,
\* m_tracked[i].isStroke).  The handle is an unsynchronised second read of a
\* field the event thread writes: the build passes what the row holds now
\* (reread) or the value the test above has read
ApplyMode_Call(reread) ==
    LET at == pc.poll[1]
        row == m_tracked[at.i + 1]
        h == IF reread THEN row.handle ELSE at.seen
        cs == <<Call(h, at.mode, row.isStroke)>>
        os == IF h = 0 THEN <<>> ELSE OpsOf(cs)
    IN  /\ variant = "ShellTAP"
        /\ pc.poll # <<>>
        /\ "i" \in DOMAIN at
        /\ at.checked
        /\ calls' = cs
        /\ ops' = os
        /\ xaml' = Exec(xaml, os)
        /\ pc' = [pc EXCEPT !.poll = <<[at EXCEPT !.i = @ + 1, !.checked = FALSE, !.seen = 0]>>]
        /\ lastOp' = Op("PollCall", h, at.mode)
        /\ UNCHANGED <<site, variant, g_config, g_discoveryMode, g_mode, g_pSharedMode,
                       m_tracked, m_trackedCount, ret, nAdds, taskbarVars>>

\* Poll thread, loop of ApplyMode: `i < m_trackedCount` fails and the tick ends
ApplyMode_Exit ==
    LET at == pc.poll[1]
    IN  /\ variant = "ShellTAP"
        /\ pc.poll # <<>>
        /\ "i" \in DOMAIN at
        /\ ~at.checked
        /\ at.i >= m_trackedCount
        /\ pc' = [pc EXCEPT !.poll = <<>>]
        /\ calls' = <<>>
        /\ ops' = <<>>
        /\ lastOp' = Op("Poll", 0, at.mode)
        /\ UNCHANGED <<site, variant, g_config, g_discoveryMode, g_mode, g_pSharedMode,
                       m_tracked, m_trackedCount, xaml, ret, nAdds, taskbarVars>>

----------------------------------------------------------------------------
(* Specifications *)

\* The mode word created holding Default whatever the mode is
InitModeSharedMemoryDefault(mode) == <<MODE_DEFAULT>>

\* InitModeSharedMemory / InitSharedMemory: the word is created holding the mode
InitModeSharedMemory(mode) == <<mode>>

\* Attachment state of a freshly loaded module: nothing held, no poll thread.
\* qi lists the statuses of the QueryInterface calls of the last SetSite.
Loaded ==
    [loaded |-> TRUE, m_pSite |-> FALSE, g_pDiagnostics |-> FALSE, g_pTreeService |-> FALSE,
     g_pWatcher |-> FALSE, advised |-> 0, g_bStopMonitor |-> FALSE,
     g_hMonitorThread |-> FALSE, threads |-> 0, started |-> 0, qi |-> <<>>, nSetSite |-> 0]

\* Attachment state after the first SetSite has succeeded
Attached ==
    [loaded |-> TRUE, m_pSite |-> TRUE, g_pDiagnostics |-> TRUE, g_pTreeService |-> TRUE,
     g_pWatcher |-> TRUE, advised |-> 1, g_bStopMonitor |-> FALSE,
     g_hMonitorThread |-> TRUE, threads |-> 1, started |-> 1, qi |-> <<S_OK, S_OK>>,
     nSetSite |-> 1]

\* pUnkSite arguments of SetSite: the null pointer and a site object
NullSite == 0
Sites == {NullSite, 1}

\* Statuses QueryInterface returns for a diagnostics interface
QIStatuses == {S_OK, E_NOINTERFACE}

\* Results of WaitForSingleObject(g_hMonitorThread, 2000)
WAIT_OBJECT_0 == "WAIT_OBJECT_0"
WAIT_TIMEOUT == "WAIT_TIMEOUT"
WaitResults == {WAIT_OBJECT_0, WAIT_TIMEOUT}

\* SetSite that creates the watcher although IVisualTreeService3 was refused
SetSiteIgnoringTreeFailure(pUnkSite, hrDiag, hrTree) ==
    LET mode == IF variant = "ShellTAP" THEN g_mode ELSE g_appearance
        released == [site EXCEPT !.m_pSite = FALSE, !.g_pTreeService = FALSE,
                                 !.g_pDiagnostics = FALSE, !.g_pWatcher = FALSE,
                                 !.qi = <<>>, !.nSetSite = @ + 1]
    IN  /\ site.loaded
        /\ pc = Outside
        /\ m_tracked' = <<>> /\ m_trackedCount' = 0
        /\ m_taskbars' = <<>> /\ m_taskbarCount' = 0
        /\ IF pUnkSite = NullSite
           THEN /\ site' = released
                /\ ret' = S_OK
                /\ UNCHANGED g_pSharedMode
           ELSE IF hrDiag # S_OK
           THEN /\ site' = [released EXCEPT !.m_pSite = TRUE, !.qi = <<hrDiag>>]
                /\ ret' = hrDiag
                /\ UNCHANGED g_pSharedMode
           ELSE /\ site' = [released EXCEPT !.m_pSite = TRUE, !.g_pDiagnostics = TRUE,
                                            !.g_pTreeService = (hrTree = S_OK),
                                            !.g_pWatcher = TRUE,
                                            !.advised = @ + 1, !.g_bStopMonitor = FALSE,
                                            !.g_hMonitorThread = TRUE, !.threads = @ + 1,
                                            !.started = @ + 1, !.qi = <<hrDiag, hrTree>>]
                /\ g_pSharedMode' = InitModeSharedMemory(mode)
                /\ ret' = S_OK
        /\ calls' = <<>>
        /\ ops' = <<>>
        /\ lastOp' = Op("SetSite", pUnkSite, mode)
        /\ UNCHANGED <<pc, variant, g_config, g_discoveryMode, g_mode, g_appearance, xaml,
                       nAdds>>

\* ShellTAPSite::SetSite / TaskbarTAPSite::SetSite.  The watcher released at entry
\* takes its table with it; a new watcher starts with an empty one.
SetSite(pUnkSite, hrDiag, hrTree) ==
    LET mode == IF variant = "ShellTAP" THEN g_mode ELSE g_appearance
        released == [site EXCEPT !.m_pSite = FALSE, !.g_pTreeService = FALSE,
                                 !.g_pDiagnostics = FALSE, !.g_pWatcher = FALSE,
                                 !.qi = <<>>, !.nSetSite = @ + 1]
    IN  /\ site.loaded
        /\ pc = Outside
        /\ m_tracked' = <<>> /\ m_trackedCount' = 0
        /\ m_taskbars' = <<>> /\ m_taskbarCount' = 0
        /\ IF pUnkSite = NullSite
           THEN /\ site' = released
                /\ ret' = S_OK
                /\ UNCHANGED g_pSharedMode
           ELSE IF hrDiag # S_OK
           THEN /\ site' = [released EXCEPT !.m_pSite = TRUE, !.qi = <<hrDiag>>]
                /\ ret' = hrDiag
                /\ UNCHANGED g_pSharedMode
           ELSE IF hrTree # S_OK
           THEN /\ site' = [released EXCEPT !.m_pSite = TRUE, !.g_pDiagnostics = TRUE,
                                            !.qi = <<hrDiag, hrTree>>]
                /\ ret' = hrTree
                /\ UNCHANGED g_pSharedMode
           ELSE /\ site' = [released EXCEPT !.m_pSite = TRUE, !.g_pDiagnostics = TRUE,
                                            !.g_pTreeService = TRUE, !.g_pWatcher = TRUE,
                                            !.advised = @ + 1, !.g_bStopMonitor = FALSE,
                                            !.g_hMonitorThread = TRUE, !.threads = @ + 1,
                                            !.started = @ + 1, !.qi = <<hrDiag, hrTree>>]
                /\ g_pSharedMode' = InitModeSharedMemory(mode)
                /\ ret' = S_OK
        /\ calls' = <<>>
        /\ ops' = <<>>
        /\ lastOp' = Op("SetSite", pUnkSite, mode)
        /\ UNCHANGED <<pc, variant, g_config, g_discoveryMode, g_mode, g_appearance, xaml,
                       nAdds>>

\* DllMain(DLL_PROCESS_DETACH): signal the poll thread, wait at most 2 s for the
\* thread whose handle is held, unmap the word.  The watcher and the interfaces
\* are left as they are.
DllMain_Detach(wait) ==
    /\ site.loaded
    /\ pc = Outside
    /\ site' = [site EXCEPT !.loaded = FALSE, !.g_bStopMonitor = TRUE,
                            !.g_hMonitorThread = FALSE,
                            !.threads = IF site.g_hMonitorThread /\ wait = WAIT_OBJECT_0
                                        THEN @ - 1 ELSE @]
    /\ g_pSharedMode' = <<>>
    /\ calls' = <<>>
    /\ ops' = <<>>
    /\ lastOp' = Op("Detach", 0, IF variant = "ShellTAP" THEN g_mode ELSE g_appearance)
    /\ UNCHANGED <<pc, variant, xaml, ret, nAdds, shellVars, taskbarVars>>

\* A poll thread finding g_bStopMonitor set at the head of its loop returns
MonitorThread_Exit ==
    /\ site.g_bStopMonitor
    /\ site.threads > 0
    /\ site' = [site EXCEPT !.threads = @ - 1]
    /\ calls' = <<>>
    /\ ops' = <<>>
    /\ lastOp' = Op("PollExit", 0, IF variant = "ShellTAP" THEN g_mode ELSE g_appearance)
    /\ UNCHANGED <<pc, variant, g_pSharedMode, xaml, ret, nAdds, shellVars, taskbarVars>>

\* A poll thread is in its loop
PollRunning == site.threads > 0 /\ ~site.g_bStopMonitor

\* The host delivers events to the watcher and the exports are callable
Watching == site.loaded /\ site.g_pWatcher /\ site.advised > 0

\* The process after attach: configuration read, watcher created, word mapped
InitWith(blobs) ==
    /\ variant \in {"ShellTAP", "TaskbarTAP"}
    /\ \E blob \in blobs :
          /\ variant = "TaskbarTAP" => ~blob.present
          /\ g_config = ReadConfig(blob).g_config
          /\ g_mode = ReadConfig(blob).g_mode
          /\ g_discoveryMode = ReadConfig(blob).g_discoveryMode
    /\ g_appearance = APPEARANCE_TRANSPARENT
    /\ g_pSharedMode = InitModeSharedMemory(IF variant = "ShellTAP" THEN g_mode ELSE g_appearance)
    /\ m_tracked = <<>>
    /\ m_trackedCount = 0
    /\ m_taskbars = <<>>
    /\ m_taskbarCount = 0
    /\ xaml = [h \in {} |-> NoOverride]
    /\ ret = S_OK
    /\ calls = <<>>
    /\ ops = <<>>
    /\ lastOp = Op("Attach", 0, IF variant = "ShellTAP" THEN g_mode ELSE g_appearance)
    /\ nAdds = 0
    /\ pc = Outside
    /\ site = Attached

Init == InitWith(ConfigBlobs)

\* The process after DllMain(DLL_PROCESS_ATTACH), before any SetSite
InitLoaded ==
    /\ variant \in {"ShellTAP", "TaskbarTAP"}
    /\ \E blob \in ConfigBlobs :
          /\ variant = "TaskbarTAP" => ~blob.present
          /\ g_config = ReadConfig(blob).g_config
          /\ g_mode = ReadConfig(blob).g_mode
          /\ g_discoveryMode = ReadConfig(blob).g_discoveryMode
    /\ g_appearance = APPEARANCE_TRANSPARENT
    /\ g_pSharedMode = <<>>
    /\ m_tracked = <<>>
    /\ m_trackedCount = 0
    /\ m_taskbars = <<>>
    /\ m_taskbarCount = 0
    /\ xaml = [h \in {} |-> NoOverride]
    /\ ret = S_OK
    /\ calls = <<>>
    /\ ops = <<>>
    /\ lastOp = Op("Load", 0, IF variant = "ShellTAP" THEN g_mode ELSE g_appearance)
    /\ nAdds = 0
    /\ pc = Outside
    /\ site = Loaded

\* Events for elements of varied shape in any order, and the exported setters
Next ==
    \/ \E h \in VariedHandles : nAdds < MaxAdds /\ OnVisualTreeChange_Add(h)
    \/ \E h \in VariedHandles : OnVisualTreeChange_Remove(h)
    \/ \E mode \in SetModeArgs : SetShellTAPMode(mode)
    \/ \E h \in VariedHandles : nAdds < MaxAdds /\ TaskbarOnVisualTreeChange_Add(h)
    \/ \E h \in VariedHandles : TaskbarOnVisualTreeChange_Remove(h)
    \/ SetTaskbarTransparent
    \/ SetTaskbarAcrylic
    \/ SetTaskbarDefault

Spec == Init /\ [][Next]_vars

\* Rows the table of the running variant can hold
Capacity == IF variant = "ShellTAP" THEN MAX_TRACKED ELSE MAX_TASKBARS

\* The next element of the taskbar being built
NextBulk == 7 + nAdds

\* A taskbar built element by element until the table overflows
NextCap ==
    \/ nAdds < Capacity + CapExtra /\ OnVisualTreeChange_Add(NextBulk)
    \/ \E h \in 7..8 : OnVisualTreeChange_Remove(h)
    \/ nAdds < Capacity + CapExtra /\ TaskbarOnVisualTreeChange_Add(NextBulk)
    \/ \E h \in 7..8 : TaskbarOnVisualTreeChange_Remove(h)

SpecCap == Init /\ [][NextCap]_vars

\* The fill and the stroke rectangle of one taskbar
PairHandles == 1..2

\* Insertions explored in the behaviours of the mode channel
MaxChannelAdds == 1

\* Events, controller writes and whole poll ticks; the poll thread of the running
\* variant keeps ticking (its loop sleeps 250 ms between ticks and never blocks)
NextChannel ==
    \/ \E h \in PairHandles : nAdds < MaxChannelAdds /\ OnVisualTreeChange_Add(h)
    \/ \E h \in PairHandles : nAdds < MaxChannelAdds /\ TaskbarOnVisualTreeChange_Add(h)
    \/ \E v \in ControllerValues : ControllerWrite(v)
    \/ MonitorThread
    \/ TaskbarMonitorThread

SpecChannel ==
    Init /\ [][NextChannel]_vars /\ WF_vars(MonitorThread) /\ WF_vars(TaskbarMonitorThread)

\* The modes the controller asks for while the threads interleave
ValidModes == MODE_DEFAULT..MODE_ACRYLIC

\* Add events delivered while the threads interleave
MaxThreadAdds == 1

\* The three threads of ShellTAP stepping through their handlers in any order
NextThreads ==
    \/ \E h \in PairHandles : nAdds < MaxThreadAdds /\ OnVisualTreeChange_AddSlot(h)
    \/ OnVisualTreeChange_AddStore
    \/ \E h \in PairHandles : pc.event = <<>> /\ OnVisualTreeChange_Remove(h)
    \/ \E v \in ValidModes : ControllerWrite(v)
    \/ MonitorThread_Read
    \/ MonitorThread_Apply
    \/ \E mode \in ValidModes : SetShellTAPMode_Write(mode)
    \/ SetShellTAPMode_Apply

SpecThreads == Init /\ [][NextThreads]_vars

\* SetSite calls and Add events explored in the behaviours of attachment
MaxSetSites == 2
MaxSiteAdds == 1

\* Attachment, re-attachment and teardown around the handlers
NextSite ==
    \/ \E p \in Sites, hrDiag \in QIStatuses, hrTree \in QIStatuses :
          site.nSetSite < MaxSetSites /\ SetSite(p, hrDiag, hrTree)
    \/ \E wait \in WaitResults : DllMain_Detach(wait)
    \/ MonitorThread_Exit
    \/ PollRunning /\ MonitorThread
    \/ PollRunning /\ TaskbarMonitorThread
    \/ \E v \in ValidModes : site.loaded /\ ControllerWrite(v)
    \/ \E h \in PairHandles : Watching /\ nAdds < MaxSiteAdds /\ OnVisualTreeChange_Add(h)
    \/ \E h \in PairHandles : Watching /\ nAdds < MaxSiteAdds /\ TaskbarOnVisualTreeChange_Add(h)
    \/ \E mode \in ValidModes : site.loaded /\ SetShellTAPMode(mode)
    \/ site.loaded /\ SetTaskbarAcrylic

SpecSite == InitLoaded /\ [][NextSite]_vars

\* Elements delivered in the behaviours of a failing host: one per failing
\* remote call, a sound stroke and a fill without an Opacity property
FaultyHandles == FaultHandles \cup {2, 6}

\* Add events explored in those behaviours
MaxFaultAdds == 2

NextFaults ==
    \/ \E h \in FaultyHandles : nAdds < MaxFaultAdds /\ OnVisualTreeChange_Add(h)
    \/ \E h \in FaultyHandles : nAdds < MaxFaultAdds /\ TaskbarOnVisualTreeChange_Add(h)
    \/ \E mode \in ValidModes : SetShellTAPMode(mode)
    \/ SetTaskbarTransparent
    \/ SetTaskbarAcrylic
    \/ SetTaskbarDefault

SpecFaults == Init /\ [][NextFaults]_vars

\* The fill, the stroke and the frame of one taskbar, and the fill of another
RowHandles == {1, 2, 4, 6}

\* Add events explored in the behaviours of row reuse
MaxRowAdds == 3

\* Elements entering and leaving the tree: the host reports the removal of an
\* element that is in the tree, here one the watcher holds in an active row
NextRows ==
    \/ \E h \in RowHandles : nAdds < MaxRowAdds /\ OnVisualTreeChange_Add(h)
    \/ \E h \in RowHandles :
          /\ \E i \in 1..m_trackedCount : m_tracked[i].active /\ m_tracked[i].handle = h
          /\ OnVisualTreeChange_Remove(h)
    \/ \E h \in RowHandles : nAdds < MaxRowAdds /\ TaskbarOnVisualTreeChange_Add(h)
    \/ \E h \in RowHandles :
          /\ \E i \in 1..m_taskbarCount :
                h \in {m_taskbars[i].backgroundFill, m_taskbars[i].backgroundStroke,
                       m_taskbars[i].taskbarFrame}
          /\ TaskbarOnVisualTreeChange_Remove(h)

SpecRows == Init /\ [][NextRows]_vars

\* Add events delivered while a mode change is under way
MaxStaleAdds == 1

\* The event thread of ShellTAP stepping through an Add, up to and from the
\* call of ApplyMode, while the poll thread and a caller of SetShellTAPMode run
NextStale ==
    \/ \E h \in PairHandles : nAdds < MaxStaleAdds /\ OnVisualTreeChange_AddSlot(h)
    \/ OnVisualTreeChange_AddRead
    \/ OnVisualTreeChange_AddApply
    \/ \E v \in ValidModes : ControllerWrite(v)
    \/ MonitorThread_Read
    \/ MonitorThread_Apply
    \/ \E mode \in ValidModes : SetShellTAPMode_Write(mode)
    \/ SetShellTAPMode_Apply

SpecStale == Init /\ [][NextStale]_vars

\* Add events delivered while the poll thread walks the table
MaxRaceAdds == 2

\* The poll thread of ShellTAP stepping through the rows of ApplyMode while the
\* event thread handles whole Add and Remove events
NextRace ==
    \/ \E h \in PairHandles : nAdds < MaxRaceAdds /\ OnVisualTreeChange_Add(h)
    \/ \E h \in PairHandles : OnVisualTreeChange_Remove(h)
    \/ \E v \in ValidModes : ControllerWrite(v)
    \/ MonitorThread_Read
    \/ ApplyMode_Enter
    \/ ApplyMode_Check
    \/ \E reread \in BOOLEAN : ApplyMode_Call(reread)
    \/ ApplyMode_Exit

SpecRace == Init /\ [][NextRace]_vars

\* A taskbar built until the table is full, then taken down row by row from
\* the first, while further elements keep arriving
NextReclaim ==
    \/ nAdds < Capacity + CapExtra /\ OnVisualTreeChange_Add(NextBulk)
    \/ \E i \in 1..m_trackedCount :
          /\ m_trackedCount = MAX_TRACKED
          /\ m_tracked[i].active
          /\ \A j \in 1..(i - 1) : ~m_tracked[j].active
          /\ OnVisualTreeChange_Remove(m_tracked[i].handle)
    \/ nAdds < Capacity + CapExtra /\ TaskbarOnVisualTreeChange_Add(NextBulk)
    \/ \E i \in 1..m_taskbarCount :
          /\ m_taskbarCount = MAX_TASKBARS
          /\ m_taskbars[i].active
          /\ \A j \in 1..(i - 1) : ~m_taskbars[j].active
          /\ TaskbarOnVisualTreeChange_Remove(
                SetMin({m_taskbars[i].backgroundFill, m_taskbars[i].backgroundStroke,
                        m_taskbars[i].taskbarFrame} \ {0}))

SpecReclaim == Init /\ [][NextReclaim]_vars

\* Configuration records whose mode field is inside and outside 0..2, and no record
RangeBlobs ==
    { Blob(FALSE, 0, 0, 0, <<>>),
      Blob(TRUE, 1, MODE_ACRYLIC, 1, <<Rule(WILDCARD, sRectangle)>>),
      Blob(TRUE, 1, 7, 1, <<Rule(WILDCARD, sRectangle)>>),
      Blob(TRUE, 1, -1, 1, <<Rule(WILDCARD, sRectangle)>>) }

\* The handlers of Spec in a process attached with one of those records
SpecRange == InitWith(RangeBlobs) /\ [][Next]_vars

\* Rule lists that exercise rule order, the rule count and empty patterns
MatcherRules1 == <<Rule(sFoo, sCircle), Rule(sBackgroundStroke, WILDCARD),
                   Rule(WILDCARD, sTaskbarFrame)>>
MatcherRules2 == <<Rule(sFoo, sRectangle), Rule(WILDCARD, WILDCARD)>>
MatcherRules3 == <<Rule(EMPTY, EMPTY)>>
MatcherBlobs ==
    { Blob(TRUE, SHELLTAP_CONFIG_VERSION, MODE_TRANSPARENT, 3, MatcherRules1),
      Blob(TRUE, SHELLTAP_CONFIG_VERSION, MODE_ACRYLIC, 1, MatcherRules2),
      Blob(TRUE, SHELLTAP_CONFIG_VERSION, MODE_DEFAULT, MAX_TARGETS, MatcherRules3) }

\* Elements presented to the matcher
MaxProbes == 1

InitMatch == InitWith(ConfigBlobs \cup MatcherBlobs)

\* Add events for the probe elements under every rule list
NextMatch == \E h \in ProbeHandles : nAdds < MaxProbes /\ OnVisualTreeChange_Add(h)

SpecMatch == InitMatch /\ [][NextMatch]_vars

\* Eight rules of which only the last accepts BackgroundStroke elements
CountRules ==
    <<Rule(sFoo, sCircle), Rule(sFoo, sCircle), Rule(sFoo, sCircle), Rule(sFoo, sCircle),
      Rule(sFoo, sCircle), Rule(sFoo, sCircle), Rule(sFoo, sCircle),
      Rule(sBackgroundStroke, WILDCARD)>>

\* Records declaring a rule count below, at and above the eight rules they
\* can hold, a record of another version, and no record
CountBlobs ==
    { Blob(FALSE, 0, 0, 0, <<>>),
      Blob(TRUE, SHELLTAP_CONFIG_VERSION, MODE_TRANSPARENT, -1, CountRules),
      Blob(TRUE, SHELLTAP_CONFIG_VERSION, MODE_TRANSPARENT, 0, CountRules),
      Blob(TRUE, SHELLTAP_CONFIG_VERSION, MODE_TRANSPARENT, 7, CountRules),
      Blob(TRUE, SHELLTAP_CONFIG_VERSION, MODE_TRANSPARENT, MAX_TARGETS, CountRules),
      Blob(TRUE, SHELLTAP_CONFIG_VERSION, MODE_TRANSPARENT, MAX_TARGETS + 1, CountRules),
      Blob(TRUE, SHELLTAP_CONFIG_VERSION, MODE_TRANSPARENT, 100, CountRules),
      Blob(TRUE, 2, MODE_TRANSPARENT, 1, CountRules) }

\* Add events for the probe elements under every declared rule count
SpecCount == InitWith(CountBlobs) /\ [][NextMatch]_vars

----------------------------------------------------------------------------
(* Vocabulary of the properties *)

\* needle occurs somewhere inside hay
Occurs(needle, hay) ==
    \E pre \in 0..Len(hay) : \E n \in 0..Len(hay) :
        /\ pre + n <= Len(hay)
        /\ n = Len(needle)
        /\ \A k \in 1..n : hay[pre + k] = needle[k]

\* The rules the configuration record configures (0-based indices)
Configured(cfg) == {i \in 0..(MAX_TARGETS - 1) : i < cfg.targetCount}

\* Rule i of cfg is satisfied by (name, type)
Satisfies(cfg, i, name, type) ==
    /\ \/ cfg.targetNames[i + 1] = <<"*">>
       \/ name # NULL /\ name = cfg.targetNames[i + 1]
    /\ \/ cfg.targetTypes[i + 1] = <<"*">>
       \/ type # NULL /\ Occurs(cfg.targetTypes[i + 1], type)

\* Rows of the ShellTAP table in use, and those of them that are active
Rows == 1..m_trackedCount
ActiveRows == {i \in Rows : m_tracked[i].active}
\* handle h is held by a row of the ShellTAP table
Held(h) == \E i \in Rows : m_tracked[i].handle = h
Tracked(h) == \E i \in ActiveRows : m_tracked[i].handle = h

\* Rows of the TaskbarTAP table in use, and those of them that are active
TaskbarRows == 1..m_taskbarCount
ActiveTaskbars == {i \in TaskbarRows : m_taskbars[i].active}
Components(row) == {row.backgroundFill, row.backgroundStroke, row.taskbarFrame}
TaskbarHeld(h) == \E i \in TaskbarRows : h \in Components(m_taskbars[i])

\* Handles the mutator was invoked on by the last operation
Invoked == {calls[k].handle : k \in 1..Len(calls)}

\* The elements delivered so far to the taskbar being built
Delivered == 7..(6 + nAdds)

\* The process-wide mode of the running variant
CurrentMode == IF variant = "ShellTAP" THEN g_mode ELSE g_appearance

\* The remote operations a pass of ApplyMode / ApplyAppearance issues now
ApplyOps(mode) ==
    IF variant = "ShellTAP"
    THEN OpsOf(ApplyMode(m_tracked, m_trackedCount, mode))
    ELSE RectOpsOf(ApplyAppearance(m_taskbars, m_taskbarCount, mode))

\* Handles a pass of ApplyMode / ApplyAppearance mutates now
Live ==
    IF variant = "ShellTAP"
    THEN {m_tracked[i].handle : i \in ActiveRows} \ {0}
    ELSE UNION {{m_taskbars[i].backgroundFill, m_taskbars[i].backgroundStroke} :
                   i \in ActiveTaskbars} \ {0}

\* The element lists both an Opacity and a Fill property
HasBoth(h) == {pOpacity, pFill} \subseteq ElementOf(h).props

\* A mode under which the element is to become fully transparent
FullyTransparent(mode, isStroke) ==
    mode = MODE_TRANSPARENT \/ (mode = MODE_ACRYLIC /\ isStroke)

\* Rows (1-based) a pass of ApplyMode does not skip
AppliedRows == {i \in Rows : m_tracked[i].active /\ m_tracked[i].handle # 0}

\* The k-th of those rows in table order
NthApplied(k) == CHOOSE i \in AppliedRows : Cardinality({j \in AppliedRows : j <= i}) = k

\* Threads standing inside a handler
Inside == {t \in DOMAIN pc : pc[t] # <<>>}

\* The steps of the mutator invocations made by the last handler
PassSteps == IF variant = "ShellTAP" THEN StepsOf(calls) ELSE RectStepsOf(calls)

\* Number of places of the table from which a pass mutates handle h
Slots(h) ==
    IF variant = "ShellTAP"
    THEN Cardinality({i \in AppliedRows : m_tracked[i].handle = h})
    ELSE Cardinality({i \in ActiveTaskbars : m_taskbars[i].backgroundFill = h})
         + Cardinality({i \in ActiveTaskbars : m_taskbars[i].backgroundStroke = h})

\* Mutator invocations of the last handler for handle h, and their first remote call
Attempts(h) == Cardinality({k \in DOMAIN calls : calls[k].handle = h})
Resolves(st, h) ==
    Cardinality({i \in DOMAIN st : st[i].op = "GetIInspectableFromHandle" /\ st[i].handle = h})

\* The last handler got the host to write property prop of handle h
Wrote(h, prop) == \E i \in DOMAIN ops : ops[i].handle = h /\ ops[i].prop = prop

\* The element for which the host fails the remote call `call`
FaultHandle(call) == CHOOSE h \in FaultHandles : Faults(h) = {call}

\* Successful property-chain queries among the steps st
Queries(st) == {i \in DOMAIN st : st[i].op = "GetPropertyValuesChain" /\ st[i].ok}

\* Steps `what` among st
StepsNamed(st, what) == {j \in DOMAIN st : st[j].op = what}

\* Releases `what` of the results of query q: those after it and before the next query
ReleasesOf(st, q, what) ==
    {j \in StepsNamed(st, what) : /\ j > q
                                  /\ st[j].handle = st[q].handle
                                  /\ \A r \in Queries(st) : ~(q < r /\ r < j)}

\* The record cfg with its configured rules re-ordered by the permutation p
Permuted(cfg, p) ==
    [cfg EXCEPT !.targetNames = [i \in 1..MAX_TARGETS |->
                                    IF (i - 1) \in DOMAIN p THEN cfg.targetNames[p[i - 1] + 1]
                                    ELSE cfg.targetNames[i]],
                !.targetTypes = [i \in 1..MAX_TARGETS |->
                                    IF (i - 1) \in DOMAIN p THEN cfg.targetTypes[p[i - 1] + 1]
                                    ELSE cfg.targetTypes[i]]]

ShellTargeting == variant = "ShellTAP" /\ ~g_discoveryMode

\* GetTrackedCount and GetShellTAPAppliedCount (the watcher exists once attached)
GetTrackedCount == m_trackedCount
GetShellTAPAppliedCount == GetTrackedCount

----------------------------------------------------------------------------
(* Properties *)

\* C1: whenever the watcher has handled an Add event, the matcher reports a
\* match for the element's (name, type) exactly when some configured rule is
\* satisfied by both its name condition (wildcard or equality) and its type
\* condition (wildcard or substring), the rule it stops at is the first such
\* rule, and a named element is tracked exactly in that case.
C1_MatchIffSomeRule ==
    (variant = "ShellTAP" /\ lastOp.op = "Add") =>
        LET e == ElementOf(lastOp.handle)
            m == MatchesTarget(e.name, e.type)
            sat == {i \in Configured(g_config) : Satisfies(g_config, i, e.name, e.type)}
        IN  /\ m.matched <=> sat # {}
            /\ m.matched => m.rule \in sat /\ \A i \in sat : m.rule <= i
            /\ Targeted(e.name, e.type) => (Tracked(lastOp.handle) <=> sat # {})

\* C1 witness: under the rules {Foo, Circle}, {BackgroundStroke, *},
\* {*, TaskbarFrame} the element BackgroundStroke / Taskbar.TaskbarFrame has
\* been added: the first rule fails, the second and third hold, and the row was
\* inserted through the second.
C1_Witness ==
    /\ ShellTargeting
    /\ g_config.targetCount = 3
    /\ lastOp.op = "Add"
    /\ ElementOf(lastOp.handle).name = sBackgroundStroke
    /\ ElementOf(lastOp.handle).type = sTaskbarTaskbarFrame
    /\ Tracked(lastOp.handle)
    /\ ~Satisfies(g_config, 0, sBackgroundStroke, sTaskbarTaskbarFrame)
    /\ Satisfies(g_config, 1, sBackgroundStroke, sTaskbarTaskbarFrame)
    /\ Satisfies(g_config, 2, sBackgroundStroke, sTaskbarTaskbarFrame)
    /\ MatchesTarget(sBackgroundStroke, sTaskbarTaskbarFrame).rule = 1

\* C2: every row the multi-target watcher has inserted carries isStroke = TRUE
\* exactly when the element's name contains "Stroke" (case-sensitive).
C2_IsStrokeIffNameHasStroke ==
    variant = "ShellTAP" =>
        \A i \in Rows : m_tracked[i].isStroke <=> Occurs(sStroke, m_tracked[i].name)

\* C2 witness: the table holds a row named BackgroundStroke flagged as stroke
\* and a row named "stroke" (lower case) not flagged.
C2_Witness ==
    /\ variant = "ShellTAP"
    /\ \E i \in Rows : m_tracked[i].name = sBackgroundStroke /\ m_tracked[i].isStroke
    /\ \E j \in Rows : m_tracked[j].name = sLowerStroke /\ ~m_tracked[j].isStroke

\* C3: after an Add event for an element without a name, the element is
\* tracked exactly when some configured rule has the wildcard name pattern and
\* a type condition that holds.
C3_UnnamedTrackedIffWildcardRule ==
    LET e == ElementOf(lastOp.handle)
    IN  (ShellTargeting /\ lastOp.op = "Add" /\ e.name = NULL) =>
            (Tracked(lastOp.handle) <=>
                \E i \in Configured(g_config) :
                    /\ g_config.targetNames[i + 1] = WILDCARD
                    /\ Satisfies(g_config, i, e.name, e.type))

\* C4 (as stated): the row count never exceeds the capacity, and once
\* capacity+1 Add events for distinct matching elements have been delivered,
\* none of them removed, exactly `capacity` rows are active, the last element
\* was dropped and the handler returned success -- in both variants.
C4_Original ==
    /\ m_trackedCount <= MAX_TRACKED
    /\ m_taskbarCount <= MAX_TASKBARS
    /\ (/\ variant = "ShellTAP"
        /\ nAdds = MAX_TRACKED + 1
        /\ lastOp.op = "Add"
        /\ \A h \in Delivered :
              Targeted(ElementOf(h).name, ElementOf(h).type)
              /\ MatchesTarget(ElementOf(h).name, ElementOf(h).type).matched
        /\ ActiveRows = Rows)
       => (Cardinality(ActiveRows) = MAX_TRACKED /\ ~Held(lastOp.handle) /\ ret = S_OK)
    /\ (/\ variant = "TaskbarTAP"
        /\ nAdds = MAX_TASKBARS + 1
        /\ lastOp.op = "Add"
        /\ TaskbarHeld(7) /\ TaskbarHeld(8)
        /\ ActiveTaskbars = TaskbarRows)
       => (Cardinality(ActiveTaskbars) = MAX_TASKBARS /\ ~TaskbarHeld(lastOp.handle)
           /\ ret = S_OK)

\* C4 (amended): the row count never exceeds the capacity in either variant.
\* In the multi-target watcher, once more than 32 Add events for distinct
\* matching elements have been delivered and none removed, exactly the first 32
\* are held by active rows, the later ones were dropped, and the handler
\* returned success.  In the single-target watcher a fill or stroke joins the
\* first active row lacking that component, so an element is dropped only when
\* it needs a new row and all 8 rows are in use; the handler returns success.
C4_CapacityNeverExceeded ==
    /\ m_trackedCount <= MAX_TRACKED /\ Len(m_tracked) = m_trackedCount
    /\ m_taskbarCount <= MAX_TASKBARS /\ Len(m_taskbars) = m_taskbarCount
    /\ lastOp.op = "Add" => ret = S_OK
    /\ (/\ variant = "ShellTAP"
        /\ nAdds > MAX_TRACKED
        /\ \A h \in Delivered :
              Targeted(ElementOf(h).name, ElementOf(h).type)
              /\ MatchesTarget(ElementOf(h).name, ElementOf(h).type).matched
        /\ ActiveRows = Rows)
       => /\ Cardinality(ActiveRows) = MAX_TRACKED
          /\ \A h \in Delivered : Held(h) <=> h <= 6 + MAX_TRACKED
    /\ (/\ variant = "TaskbarTAP"
        /\ nAdds >= 2 /\ TaskbarHeld(7) /\ TaskbarHeld(8)
        /\ ActiveTaskbars = TaskbarRows)
       => \A h \in Delivered :
             ~TaskbarHeld(h) =>
                /\ m_taskbarCount = MAX_TASKBARS
                /\ FindSlot(m_taskbars, m_taskbarCount, ElementOf(h)) < 0

\* C4 witness: the 33rd distinct matching element has just been delivered to a
\* full multi-target table: 32 active rows, the element not held, success.
C4_Witness ==
    /\ ShellTargeting
    /\ nAdds = MAX_TRACKED + 1
    /\ lastOp.op = "Add" /\ lastOp.handle = 6 + MAX_TRACKED + 1
    /\ MatchesTarget(ElementOf(lastOp.handle).name, ElementOf(lastOp.handle).type).matched
    /\ Cardinality(ActiveRows) = MAX_TRACKED
    /\ ~Held(lastOp.handle)
    /\ ret = S_OK

\* C5: no two active rows of the multi-target table hold the same handle.
C5_OneActiveRowPerHandle ==
    variant = "ShellTAP" =>
        \A i \in ActiveRows : \A j \in ActiveRows :
            m_tracked[i].handle = m_tracked[j].handle => i = j

\* C6: a Remove event whose handle no row holds changes neither table nor
\* either row count, and the handler returns success (both variants).
C6_RemoveUntrackedIsNoOp ==
    [][(lastOp'.op = "Remove" /\ ~Held(lastOp'.handle) /\ ~TaskbarHeld(lastOp'.handle))
        => /\ m_tracked' = m_tracked /\ m_trackedCount' = m_trackedCount
           /\ m_taskbars' = m_taskbars /\ m_taskbarCount' = m_taskbarCount
           /\ ret' = S_OK]_vars

\* C6 witness: a Remove for the element "stroke", which the configured rule
\* {BackgroundFill, Rectangle} never tracks, has been handled while a row is active.
C6_Witness ==
    /\ ShellTargeting
    /\ lastOp.op = "Remove" /\ lastOp.handle = 4
    /\ g_config.targetCount = 1
    /\ ~MatchesTarget(sLowerStroke, sTaskbarTaskbarFrame).matched
    /\ ActiveRows # {}
    /\ ret = S_OK

\* C7: a Remove event leaves every row that held its handle inactive, and an
\* operation on a handle no active row holds (other than a new Add event for
\* it) neither tracks it again nor invokes the property mutator on it.
C7_RemovedHandleNeverMutated ==
    [][variant = "ShellTAP" =>
         \A h \in VariedHandles :
            /\ (lastOp'.op = "Remove" /\ lastOp'.handle = h) =>
                  /\ \A i \in Rows : m_tracked[i].handle = h => ~m_tracked'[i].active
                  /\ \A i \in 1..m_trackedCount' : m_tracked'[i].handle # h
            /\ (~Tracked(h) /\ ~(lastOp'.op = "Add" /\ lastOp'.handle = h)) =>
                  /\ \A i \in 1..m_trackedCount' : m_tracked'[i].handle # h
                  /\ \A k \in 1..Len(calls') : calls'[k].handle # h]_vars

\* C7 witness: BackgroundStroke (handle 2) was tracked and removed; a later
\* SetShellTAPMode applied the mode to the remaining active row only.
C7_Witness ==
    /\ ShellTargeting
    /\ \E i \in Rows : m_tracked[i].name = sBackgroundStroke /\ ~m_tracked[i].active
    /\ ActiveRows # {}
    /\ lastOp.op = "SetMode" /\ ret = S_OK
    /\ calls # <<>>
    /\ 2 \notin Invoked

\* C8: while discovery mode is active the tracked table stays empty,
\* GetTrackedCount reports 0 and the property mutator has never been invoked.
C8_DiscoveryNeverTracks ==
    (variant = "ShellTAP" /\ g_discoveryMode) =>
        /\ GetTrackedCount = 0 /\ GetShellTAPAppliedCount = 0
        /\ m_tracked = <<>>
        /\ calls = <<>> /\ ops = <<>>
        /\ DOMAIN xaml = {}

\* C8 witness: in discovery mode (version mismatch, the copied record still
\* holding the rule {*, *}) a second Add event for a named element has been
\* handled and nothing is tracked.
C8_Witness ==
    /\ variant = "ShellTAP" /\ g_discoveryMode
    /\ g_config.targetCount = 1
    /\ nAdds >= 2
    /\ lastOp.op = "Add"
    /\ ElementOf(lastOp.handle).name # NULL
    /\ MatchesTarget(ElementOf(lastOp.handle).name, ElementOf(lastOp.handle).type).matched
    /\ GetTrackedCount = 0

\* C9 (as stated): an Add event that inserts a new row invokes the property
\* mutator on the new handle with the current mode when the mode is not
\* Default, and performs no mutation when it is Default -- in both variants.
C9_Original ==
    [][(lastOp'.op = "Add"
        /\ (m_trackedCount' = m_trackedCount + 1 \/ m_taskbarCount' = m_taskbarCount + 1))
        => IF lastOp'.mode # MODE_DEFAULT
           THEN \E k \in 1..Len(calls') :
                   calls'[k].handle = lastOp'.handle /\ calls'[k].mode = lastOp'.mode
           ELSE calls' = <<>> /\ ops' = <<>> /\ xaml' = xaml]_vars

\* C9 (amended): an Add event that stores an element invokes the property
\* mutator on its handle with the current mode when the mode is not Default,
\* in the multi-target watcher for every inserted row and in the single-target
\* watcher for a BackgroundFill or BackgroundStroke rectangle; a frame element
\* of the single-target watcher is recorded but never mutated.  When the mode
\* is Default no mutation is performed.
C9_AppliedOnInsertion ==
    [][LET h == lastOp'.handle
           e == ElementOf(h)
           shellInsert == variant = "ShellTAP" /\ m_trackedCount' = m_trackedCount + 1
           rectStore == /\ variant = "TaskbarTAP" /\ m_taskbars' # m_taskbars
                        /\ (isBackgroundFill(e) \/ isBackgroundStroke(e))
           frameStore == /\ variant = "TaskbarTAP" /\ m_taskbars' # m_taskbars
                         /\ ~(isBackgroundFill(e) \/ isBackgroundStroke(e))
       IN  lastOp'.op = "Add" =>
              /\ (shellInsert /\ g_mode # MODE_DEFAULT) =>
                    /\ Call(h, g_mode, m_tracked'[m_trackedCount'].isStroke)
                          \in {calls'[k] : k \in 1..Len(calls')}
                    /\ ops' = OpsOf(calls')
              /\ (rectStore /\ g_appearance # APPEARANCE_DEFAULT) =>
                    /\ Call(h, g_appearance, isBackgroundStroke(e))
                          \in {calls'[k] : k \in 1..Len(calls')}
                    /\ ops' = RectOpsOf(calls')
              /\ frameStore =>
                    /\ m_taskbars'[m_taskbarCount'].taskbarFrame = h
                    /\ \A k \in 1..Len(calls') : calls'[k].handle # h
              /\ ((shellInsert \/ rectStore \/ frameStore) /\ lastOp'.mode = MODE_DEFAULT) =>
                    calls' = <<>> /\ ops' = <<>> /\ xaml' = xaml]_vars

\* C9 witness: BackgroundStroke has just been inserted under mode Acrylic and
\* the mutator was invoked on it as a stroke, writing opacity 0.0.
C9_Witness ==
    /\ ShellTargeting
    /\ g_mode = MODE_ACRYLIC
    /\ lastOp.op = "Add" /\ lastOp.handle = 2
    /\ m_trackedCount > 0 /\ m_tracked[m_trackedCount].handle = 2
    /\ Call(2, MODE_ACRYLIC, TRUE) \in {calls[k] : k \in 1..Len(calls)}
    /\ 2 \in DOMAIN xaml /\ xaml[2].Opacity = <<0>>

\* C10: a successful mode application that follows a successful application of
\* the same mode, with no event in between, issues the same mutator invocations
\* and remote operations as the first and leaves every element's opacity and
\* fill as the first left them.
C10_ApplyModeIdempotent ==
    [][(/\ lastOp.op = "SetMode" /\ ret = S_OK
        /\ lastOp'.op = "SetMode" /\ ret' = S_OK
        /\ lastOp'.mode = lastOp.mode)
        => /\ calls' = calls
           /\ ops' = ops
           /\ xaml' = xaml
           /\ Exec(xaml', ops') = xaml']_vars

\* C10 witness: Acrylic has been applied to a table of two active rows with
\* writable Opacity and Fill; executing the same operations again leaves the
\* elements as they are.
C10_Witness ==
    /\ ShellTargeting
    /\ lastOp.op = "SetMode" /\ lastOp.mode = MODE_ACRYLIC /\ ret = S_OK
    /\ Len(calls) >= 2
    /\ Len(ops) >= 4
    /\ Exec(xaml, ops) = xaml

\* C11: from every reachable table state, the passes ApplyMode(Default),
\* ApplyMode(Transparent), ApplyMode(Default) leave every live tracked element
\* without an opacity override and without a fill override.
C11_RoundTripClears ==
    LET x1 == Exec(xaml, ApplyOps(MODE_DEFAULT))
        x2 == Exec(x1, ApplyOps(MODE_TRANSPARENT))
        x3 == Exec(x2, ApplyOps(MODE_DEFAULT))
    IN  \A h \in Live : Overrides(x3, h) = NoOverride

\* C12: every mutator invocation of the last operation made under Transparent,
\* or under Acrylic on a stroke, for an element with both properties issued
\* SetProperty(Opacity, Double 0.0) and SetProperty(Fill, transparent
\* SolidColorBrush), and the element now carries opacity 0.0 and that brush.
C12_TransparentWrites ==
    \A k \in 1..Len(calls) :
        LET h == calls[k].handle
        IN  (FullyTransparent(calls[k].mode, calls[k].isStroke) /\ HasBoth(h)) =>
               /\ \E i \in 1..Len(ops) :
                     ops[i] = SetProperty(h, CreateInstance(sDouble, <<0, 0>>), pOpacity)
               /\ \E i \in 1..Len(ops) :
                     ops[i] = SetProperty(h, CreateInstance(sSolidColorBrush, sTransparent), pFill)
               /\ Overrides(xaml, h) = [Opacity |-> <<0>>, Fill |-> <<sTransparent>>]

\* C12 witness: Transparent was applied to a fill and to a stroke rectangle,
\* both now at opacity 0.0 with the transparent brush.
C12_Witness ==
    /\ lastOp.op = "SetMode" /\ lastOp.mode = MODE_TRANSPARENT /\ ret = S_OK
    /\ \E k \in 1..Len(calls) : calls[k] = Call(1, MODE_TRANSPARENT, FALSE)
    /\ \E k \in 1..Len(calls) : calls[k] = Call(2, MODE_TRANSPARENT, TRUE)
    /\ Overrides(xaml, 1) = [Opacity |-> <<0>>, Fill |-> <<sTransparent>>]
    /\ Overrides(xaml, 2) = [Opacity |-> <<0>>, Fill |-> <<sTransparent>>]

\* C13: every mutator invocation of the last operation made under Acrylic on
\* a non-stroke element with both properties left it at opacity 0.3 with a fill
\* brush other than the transparent brush of Transparent mode.
C13_AcrylicFillBrush ==
    \A k \in 1..Len(calls) :
        LET h == calls[k].handle
        IN  (calls[k].mode = MODE_ACRYLIC /\ ~calls[k].isStroke /\ HasBoth(h)) =>
               /\ Overrides(xaml, h).Opacity = <<300000>>
               /\ Overrides(xaml, h).Fill # <<>>
               /\ Overrides(xaml, h).Fill # <<sTransparent>>

\* C14: a successful mode application of Default issued no SetProperty (set
\* literal) operation, and afterwards no live tracked element carries a fill
\* override.
C14_DefaultClears ==
    (lastOp.op = "SetMode" /\ lastOp.mode = MODE_DEFAULT /\ ret = S_OK) =>
        /\ \A i \in 1..Len(ops) : ops[i].op # "SetProperty"
        /\ \A h \in Live : Overrides(xaml, h).Fill = <<>>

\* C15: a SetShellTAPMode call with an argument outside {0, 1, 2} returns
\* E_INVALIDARG, invokes no mutator, and leaves the process-wide mode, the
\* shared mode word, the table and every element's properties as they were.
C15_InvalidModeRejected ==
    [][(variant = "ShellTAP" /\ lastOp'.op = "SetMode" /\ lastOp'.mode \notin {0, 1, 2})
        => /\ ret' = E_INVALIDARG
           /\ g_mode' = g_mode
           /\ g_pSharedMode' = g_pSharedMode
           /\ xaml' = xaml
           /\ m_tracked' = m_tracked /\ m_trackedCount' = m_trackedCount
           /\ calls' = <<>> /\ ops' = <<>>]_vars

\* C15 witness: SetShellTAPMode(3) has been rejected while an element is
\* tracked under mode Transparent; mode and shared word still hold Transparent.
C15_Witness ==
    /\ ShellTargeting
    /\ lastOp.op = "SetMode" /\ lastOp.mode = 3
    /\ ret = E_INVALIDARG
    /\ ActiveRows # {}
    /\ g_mode = MODE_TRANSPARENT /\ g_pSharedMode = <<MODE_TRANSPARENT>>
    /\ calls = <<>>

\* C16: SetShellTAPMode(m) with m in {0, 1, 2} first writes m to the
\* process-wide mode and to the shared word, before any mutator invocation;
\* when no other thread is inside a handler and nothing ran in between, it then
\* returns S_OK having invoked the mutator with mode m exactly once per active
\* row, in table order, the mode and the word still holding m.
C16_SetModeWritesThenApplies ==
    [][variant = "ShellTAP" =>
         /\ lastOp'.op = "SetModeWrite" =>
               /\ lastOp'.mode \in {0, 1, 2}
               /\ g_mode' = lastOp'.mode
               /\ g_pSharedMode' = <<lastOp'.mode>>
               /\ calls' = <<>> /\ ops' = <<>> /\ xaml' = xaml
         /\ (lastOp.op = "SetModeWrite" /\ lastOp'.op = "SetMode"
             /\ pc.event = <<>> /\ pc.poll = <<>>) =>
               /\ ret' = S_OK
               /\ lastOp'.mode = lastOp.mode
               /\ g_mode' = lastOp.mode
               /\ g_pSharedMode' = <<lastOp.mode>>
               /\ Len(calls') = Cardinality(AppliedRows)
               /\ \A k \in 1..Len(calls') :
                     calls'[k] = Call(m_tracked[NthApplied(k)].handle, lastOp.mode,
                                      m_tracked[NthApplied(k)].isStroke)
               /\ ops' = OpsOf(calls')
               /\ xaml' = Exec(xaml, ops')
               /\ pc' = Outside]_vars

\* C16 witness: SetShellTAPMode(2) has returned S_OK with a row tracked, no
\* thread inside a handler: mode and word hold Acrylic, the row was mutated.
C16_Witness ==
    /\ ShellTargeting
    /\ lastOp = Op("SetMode", 0, MODE_ACRYLIC) /\ ret = S_OK
    /\ pc = Outside
    /\ g_mode = MODE_ACRYLIC /\ g_pSharedMode = <<MODE_ACRYLIC>>
    /\ AppliedRows # {}
    /\ Len(calls) = Cardinality(AppliedRows)
    /\ \A i \in AppliedRows : m_tracked[i].handle \in Invoked

\* C17: in both variants the process-wide mode equals the shared mode word
\* whenever no call is in progress (no controller write and no poll tick occur
\* in these behaviours).
C17_ModeEqualsSharedWord ==
    g_pSharedMode # <<>> => g_pSharedMode = <<CurrentMode>>

\* C18: a poll tick that reads a value outside 0..2 changes neither the
\* process-wide mode nor the shared word nor any element, and invokes no mutator
\* (both variants).
C18_OutOfRangeIgnored ==
    [][(lastOp'.op = "Poll" /\ lastOp'.mode \notin {0, 1, 2})
        => /\ g_pSharedMode = <<lastOp'.mode>>
           /\ g_pSharedMode' = g_pSharedMode
           /\ g_mode' = g_mode /\ g_appearance' = g_appearance
           /\ calls' = <<>> /\ ops' = <<>>
           /\ xaml' = xaml]_vars

\* C18 witness: a tick has read 3 from the shared word while a row is tracked;
\* the mode is still a valid one and the word still holds 3.
C18_Witness ==
    /\ ShellTargeting
    /\ lastOp = Op("Poll", 0, 3)
    /\ g_pSharedMode = <<3>>
    /\ g_mode \in {0, 1, 2}
    /\ ActiveRows # {}
    /\ calls = <<>>

\* C19: once the controller has written a valid value other than the current
\* mode, a poll tick eventually sets the process-wide mode to the value written
\* last and invokes the mutator with it on every active row, unless the
\* controller writes the word again with the current mode or an invalid value;
\* and a tick that reads the current mode invokes nothing.
C19_PollEventuallyApplies ==
    /\ (lastOp.op = "Write" /\ lastOp.mode \in ValidModes /\ CurrentMode # lastOp.mode)
          ~> \/ /\ lastOp.op = "Poll"
                /\ CurrentMode = lastOp.mode
                /\ g_pSharedMode = <<CurrentMode>>
                /\ ops = ApplyOps(CurrentMode)
                /\ Live \subseteq Invoked
                /\ \A k \in 1..Len(calls) : calls[k].mode = CurrentMode
             \/ /\ lastOp.op = "Write"
                /\ lastOp.mode \notin ValidModes \/ lastOp.mode = CurrentMode
    /\ [][(lastOp'.op = "Poll" /\ lastOp'.mode = CurrentMode)
            => calls' = <<>> /\ ops' = <<>> /\ xaml' = xaml
               /\ g_mode' = g_mode /\ g_appearance' = g_appearance]_vars

\* C19 witness: the controller's Acrylic, not the configured mode, has been
\* picked up by a tick and applied to the tracked row.
C19_Witness ==
    /\ ShellTargeting
    /\ g_config.mode # MODE_ACRYLIC
    /\ lastOp = Op("Poll", 0, MODE_ACRYLIC)
    /\ g_mode = MODE_ACRYLIC /\ g_pSharedMode = <<MODE_ACRYLIC>>
    /\ ActiveRows # {}
    /\ Len(calls) = Cardinality(ActiveRows)
    /\ \A k \in 1..Len(calls) : calls[k].mode = MODE_ACRYLIC

\* C20: at most one thread at a time is inside a handler that reads or writes
\* the tracked table or the process-wide mode.
C20_MutualExclusion == Cardinality(Inside) <= 1

\* C21: every teardown (SetSite releasing what a previous SetSite acquired,
\* module detach unmapping the word) leaves no poll thread running other than
\* the one the same call starts: the threads running at entry have been
\* signalled and have stopped before anything is released.
C21_PollStoppedBeforeRelease ==
    [][(/\ lastOp'.op \in {"SetSite", "Detach"}
        /\ \/ site.g_pWatcher \/ site.g_pDiagnostics \/ site.g_pTreeService
           \/ g_pSharedMode # <<>>)
        => site'.threads = site'.started - site.started]_vars

\* C22: with a configuration record whose version is not the expected one the
\* multi-target watcher is attached, runs in discovery mode and tracks nothing,
\* whatever rules and rule count the record holds.
C22_VersionMismatchDiscovers ==
    (variant = "ShellTAP" /\ g_config.version # SHELLTAP_CONFIG_VERSION) =>
        /\ g_discoveryMode
        /\ site.g_pWatcher /\ site.advised > 0
        /\ lastOp.op \in {"Attach", "Add", "Remove"} => ret = S_OK
        /\ m_trackedCount = 0 /\ m_tracked = <<>>
        /\ calls = <<>> /\ ops = <<>>
        /\ DOMAIN xaml = {}

\* C22 witness: the record of version 2 carries one rule {*, *}; Add events for
\* BackgroundFill, which that rule accepts, have been handled and no row exists.
C22_Witness ==
    /\ variant = "ShellTAP"
    /\ g_config.version = 2 /\ g_config.targetCount = 1
    /\ lastOp.op = "Add" /\ lastOp.handle = 1
    /\ nAdds >= 1
    /\ RuleHit(g_config, 0, ElementOf(1).name, ElementOf(1).type)
    /\ m_trackedCount = 0

\* C23: a pass of ApplyMode / ApplyAppearance invokes the mutator exactly once
\* for every place of an active row holding a live handle, whatever remote call
\* fails for any element; when only the opacity write of an element fails its
\* fill is still written, and an element with no failing call is written even
\* when it comes after failing ones.
C23_FailuresDoNotAbort ==
    (lastOp.op = "SetMode" /\ ret = S_OK) =>
        /\ Invoked \subseteq Live
        /\ LET st == PassSteps
           IN  \A h \in Live : Attempts(h) = Slots(h) /\ Resolves(st, h) = Slots(h)
        /\ \A h \in Live :
              (/\ lastOp.mode # MODE_DEFAULT
               /\ pFill \in ElementOf(h).props
               /\ Faults(h) \subseteq {"CreateInstance(Double)", "SetProperty(Opacity)"})
              => Wrote(h, pFill)
        /\ \A h \in Live :
              (Faults(h) = {} /\ pOpacity \in ElementOf(h).props) => Wrote(h, pOpacity)

\* C23 witness: the element whose opacity write the host refuses is in row 0 and
\* a sound stroke in row 1; SetShellTAPMode(Transparent) has written the fill of
\* the first, not its opacity, and the opacity of the second.
C23_Witness ==
    /\ ShellTargeting
    /\ lastOp = Op("SetMode", 0, MODE_TRANSPARENT) /\ ret = S_OK
    /\ m_trackedCount = 2
    /\ m_tracked[1].handle = FaultHandle("SetProperty(Opacity)") /\ m_tracked[1].active
    /\ m_tracked[2].handle = 2 /\ m_tracked[2].active
    /\ Len(calls) = 2
    /\ Wrote(m_tracked[1].handle, pFill) /\ ~Wrote(m_tracked[1].handle, pOpacity)
    /\ Wrote(2, pOpacity)
    /\ Overrides(xaml, m_tracked[1].handle).Opacity = <<>>

\* C29: among the steps of any handler, every property-chain query that
\* succeeded is followed, before the next query, by exactly one release of its
\* values and exactly one release of its source descriptors, whichever of the
\* later calls failed or were skipped; nothing is released for a failed query.
C29_ChainReleasedOnce ==
    LET st == PassSteps
        Q == Queries(st)
    IN  /\ \A q \in Q : /\ Cardinality(ReleasesOf(st, q, "FreeValues")) = 1
                         /\ Cardinality(ReleasesOf(st, q, "FreeSources")) = 1
        /\ Cardinality(StepsNamed(st, "FreeValues")) = Cardinality(Q)
        /\ Cardinality(StepsNamed(st, "FreeSources")) = Cardinality(Q)

\* C29 witness: a pass of the single-target watcher over two fills, one whose
\* value construction the host refuses; both queries succeeded and both results
\* were released.
C29_Witness ==
    /\ variant = "TaskbarTAP"
    /\ lastOp = Op("SetMode", 0, APPEARANCE_ACRYLIC)
    /\ LET st == PassSteps
       IN  /\ Cardinality(Queries(st)) = 2
           /\ \E i \in StepsNamed(st, "CreateInstance(Double)") : ~st[i].ok
           /\ \A q \in Queries(st) : ReleasesOf(st, q, "FreeValues") # {}

\* C24: when the name and type of an added element satisfy exactly one of the
\* configured rules, the matcher returns the same matched flag and the same
\* isStroke under every re-ordering of the configured rules.
C24_RuleOrderIrrelevant ==
    (variant = "ShellTAP" /\ lastOp.op = "Add") =>
        LET e == ElementOf(lastOp.handle)
            m == MatchesTarget(e.name, e.type)
            sat == {i \in Configured(g_config) : Satisfies(g_config, i, e.name, e.type)}
        IN  Cardinality(sat) = 1 =>
               \A p \in Permutations(Configured(g_config)) :
                  LET mp == MatchLoop(Permuted(g_config, p), 0, e.name, e.type)
                  IN  /\ mp.matched = m.matched
                      /\ mp.isStroke = m.isStroke
                      /\ mp.matched
                      /\ p[mp.rule] \in sat

\* C24 witness: under the rules {Foo, Circle}, {BackgroundStroke, *},
\* {*, TaskbarFrame} the element Stroke / Taskbar.TaskbarFrame, which only the
\* third rule accepts, has been added and tracked as a stroke.
C24_Witness ==
    /\ ShellTargeting
    /\ g_config.targetCount = 3
    /\ lastOp.op = "Add"
    /\ ElementOf(lastOp.handle).name = sStroke
    /\ ElementOf(lastOp.handle).type = sTaskbarTaskbarFrame
    /\ {i \in Configured(g_config) : Satisfies(g_config, i, sStroke, sTaskbarTaskbarFrame)} = {2}
    /\ MatchesTarget(sStroke, sTaskbarTaskbarFrame) = [matched |-> TRUE, isStroke |-> TRUE, rule |-> 2]
    /\ Tracked(lastOp.handle)

----------------------------------------------------------------------------
(* C25: rows are never brought back to life *)

\* No row that is inactive before a step is active after it
RowsStayDead ==
    /\ \A i \in Rows : ~m_tracked[i].active => ~m_tracked'[i].active
    /\ \A i \in TaskbarRows : ~m_taskbars[i].active => ~m_taskbars'[i].active

\* The step is an Add of the handle whose removal was the step before, and it
\* stores the handle
ReAddStored ==
    /\ lastOp.op = "Remove" /\ lastOp'.op = "Add" /\ lastOp'.handle = lastOp.handle
    /\ m_tracked' # m_tracked \/ m_taskbars' # m_taskbars

\* C25 as stated: row liveness is one-way in both variants, and an Add for a
\* handle that was removed is stored in a fresh row, at a new index.
C25_Original ==
    [][/\ RowsStayDead
       /\ ReAddStored =>
             IF variant = "ShellTAP"
             THEN m_trackedCount' = m_trackedCount + 1
             ELSE m_taskbarCount' = m_taskbarCount + 1]_vars

\* C25 amended: in both variants a row that is inactive is never written again.
\* In ShellTAP an Add that stores a handle appends a row.  In TaskbarTAP an Add
\* that stores a handle either appends a row or fills the empty component of
\* a row that is active, which is the row the handle was removed from when
\* another component has kept that row active.
C25_DeadRowsNeverWritten ==
    [][/\ \A i \in Rows : ~m_tracked[i].active => m_tracked'[i] = m_tracked[i]
       /\ \A i \in TaskbarRows : ~m_taskbars[i].active => m_taskbars'[i] = m_taskbars[i]
       /\ (lastOp'.op = "Add" /\ m_tracked' # m_tracked) =>
             /\ m_trackedCount' = m_trackedCount + 1
             /\ m_tracked'[m_trackedCount'].handle = lastOp'.handle
             /\ m_tracked'[m_trackedCount'].active
             /\ \A i \in Rows : m_tracked'[i] = m_tracked[i]
       /\ (lastOp'.op = "Add" /\ m_taskbars' # m_taskbars) =>
             \/ /\ m_taskbarCount' = m_taskbarCount + 1
                /\ lastOp'.handle \in Components(m_taskbars'[m_taskbarCount'])
                /\ m_taskbars'[m_taskbarCount'].active
                /\ \A i \in TaskbarRows : m_taskbars'[i] = m_taskbars[i]
             \/ /\ m_taskbarCount' = m_taskbarCount
                /\ \E i \in TaskbarRows :
                      /\ m_taskbars[i].active /\ m_taskbars'[i].active
                      /\ \A j \in TaskbarRows \ {i} : m_taskbars'[j] = m_taskbars[j]
                      /\ \/ /\ m_taskbars[i].backgroundFill = 0
                            /\ m_taskbars'[i] =
                                  [m_taskbars[i] EXCEPT !.backgroundFill = lastOp'.handle]
                         \/ /\ m_taskbars[i].backgroundStroke = 0
                            /\ m_taskbars'[i] =
                                  [m_taskbars[i] EXCEPT !.backgroundStroke = lastOp'.handle]
      ]_vars

\* The fill of a taskbar was removed while its stroke kept the row active, came
\* back and sits in the same row again
C25_Witness ==
    /\ variant = "TaskbarTAP" /\ lastOp.op = "Add" /\ lastOp.handle = 1
    /\ nAdds = 3 /\ m_taskbarCount = 1
    /\ m_taskbars[1].backgroundFill = 1 /\ m_taskbars[1].backgroundStroke = 2
    /\ m_taskbars[1].active

----------------------------------------------------------------------------
(* C26: what a Remove does to the rows of TaskbarTAP *)

\* C26: a Remove of TaskbarTAP clears, in every row, exactly the components
\* equal to the removed handle; a row is active afterwards exactly when it
\* was active and still holds a component that is not zero.
C26_RemoveClearsEqualComponents ==
    [][(variant = "TaskbarTAP" /\ lastOp'.op = "Remove") =>
          LET h == lastOp'.handle
              Cleared(x) == IF x = h THEN 0 ELSE x
          IN  /\ m_taskbarCount' = m_taskbarCount
              /\ Len(m_taskbars') = Len(m_taskbars)
              /\ \A i \in TaskbarRows :
                    /\ m_taskbars'[i].backgroundFill = Cleared(m_taskbars[i].backgroundFill)
                    /\ m_taskbars'[i].backgroundStroke = Cleared(m_taskbars[i].backgroundStroke)
                    /\ m_taskbars'[i].taskbarFrame = Cleared(m_taskbars[i].taskbarFrame)
                    /\ m_taskbars'[i].active <=>
                          (m_taskbars[i].active /\ Components(m_taskbars'[i]) # {0})
      ]_vars

\* The fill held by two rows was removed: the row that also holds a stroke
\* stayed active without its fill, the row that held nothing else went inactive
C26_Witness ==
    /\ variant = "TaskbarTAP" /\ lastOp.op = "Remove" /\ lastOp.handle = 1
    /\ m_taskbarCount = 2
    /\ m_taskbars[1] = [backgroundFill |-> 0, backgroundStroke |-> 2, taskbarFrame |-> 0,
                        active |-> TRUE]
    /\ m_taskbars[2] = ZeroTaskbar

----------------------------------------------------------------------------
(* C27, C28: what SetSite leaves behind *)

\* C27: a SetSite that succeeds leaves the shared word equal to the current
\* mode, and a poll tick that comes next, before any other write, applies
\* nothing and changes no mode.
C27_WordInitialisedToMode ==
    [][(lastOp.op = "SetSite" /\ lastOp.handle # NullSite /\ ret = S_OK) =>
          /\ g_pSharedMode = <<CurrentMode>>
          /\ lastOp'.op = "Poll" =>
                /\ calls' = <<>> /\ ops' = <<>>
                /\ xaml' = xaml
                /\ g_mode' = g_mode /\ g_appearance' = g_appearance
      ]_vars

\* SetSite has just succeeded while the mode is Acrylic, and a poll thread is
\* in its loop
C27_Witness ==
    /\ lastOp.op = "SetSite" /\ lastOp.handle # NullSite /\ ret = S_OK
    /\ CurrentMode = MODE_ACRYLIC
    /\ g_pSharedMode = <<MODE_ACRYLIC>>
    /\ PollRunning

\* C28: a SetSite in which QueryInterface fails for either diagnostics
\* interface returns that status and, in that call, creates no watcher, asks
\* for no event subscription, does not initialise the mode channel and starts
\* no poll thread.
C28_FailedQueryStopsSetSite ==
    [][(lastOp'.op = "SetSite" /\ \E k \in DOMAIN site'.qi : site'.qi[k] # S_OK) =>
          /\ ret' = site'.qi[Len(site'.qi)]
          /\ ret' # S_OK
          /\ ~site'.g_pWatcher
          /\ site'.advised = site.advised
          /\ g_pSharedMode' = g_pSharedMode
          /\ site'.started = site.started
          /\ site'.threads = site.threads
          /\ site'.g_hMonitorThread = site.g_hMonitorThread
      ]_vars

\* The first SetSite obtained IXamlDiagnostics and was refused
\* IVisualTreeService3: it returned the refusal and nothing was set up
C28_Witness ==
    /\ lastOp.op = "SetSite" /\ lastOp.handle # NullSite
    /\ site.qi = <<S_OK, E_NOINTERFACE>>
    /\ ret = E_NOINTERFACE
    /\ site.m_pSite /\ site.g_pDiagnostics /\ ~site.g_pWatcher
    /\ site.advised = 0 /\ site.started = 0 /\ g_pSharedMode = <<>>

----------------------------------------------------------------------------
(* C30: the mode a variant starts with *)

\* C30: at attach TaskbarTAP is in Transparent; ShellTAP is in the mode of its
\* configuration record when the record has the expected version, and in
\* Transparent when there is no record or its version differs.
C30_InitialMode ==
    lastOp.op = "Attach" =>
        IF variant = "TaskbarTAP"
        THEN g_appearance = APPEARANCE_TRANSPARENT
        ELSE g_mode = IF g_config.version = SHELLTAP_CONFIG_VERSION
                      THEN g_config.mode
                      ELSE MODE_TRANSPARENT

\* ShellTAP attached with a record of the expected version that asks for Acrylic
C30_Witness ==
    /\ lastOp.op = "Attach" /\ variant = "ShellTAP"
    /\ g_config.version = SHELLTAP_CONFIG_VERSION
    /\ g_config.mode = MODE_ACRYLIC
    /\ g_mode = MODE_ACRYLIC

----------------------------------------------------------------------------
(* C31: the range of the mode *)

\* C31: in every state the mode of the process is 0, 1 or 2, whatever the
\* configuration record, the shared word and the callers of the setters
\* supply, and the word the watcher creates at attach holds a value in 0..2.
C31_ModeAlwaysValid ==
    /\ CurrentMode \in ValidModes
    /\ (lastOp.op = "Attach" /\ g_pSharedMode # <<>>) => g_pSharedMode[1] \in ValidModes

----------------------------------------------------------------------------
(* C32: stale passes *)

\* C32: when no thread of ShellTAP is inside a handler, every active row whose
\* element has been written holds the opacity of the current mode: no pass
\* that started with an older mode has written over a newer one.
C32_NoStaleMode ==
    (variant = "ShellTAP" /\ pc = Outside) =>
        \A i \in AppliedRows :
            LET h == m_tracked[i].handle
            IN  Overrides(xaml, h).Opacity # <<>> =>
                   Overrides(xaml, h).Opacity =
                       <<ParseDouble(to_wstring(OpacityFor(g_mode, m_tracked[i].isStroke)))>>

----------------------------------------------------------------------------
(* C33: a mode set by a direct call and the poll loop *)

\* C33: a poll tick that follows the return of a direct setter, with no write
\* of the controller in between, changes no mode and applies nothing; this
\* for the setters of TaskbarTAP as for SetShellTAPMode.
C33_DirectModePersists ==
    [][(lastOp.op = "SetMode" /\ ret = S_OK /\ lastOp'.op = "Poll") =>
          /\ g_mode' = g_mode
          /\ g_appearance' = g_appearance
          /\ calls' = <<>> /\ ops' = <<>>
          /\ xaml' = xaml]_vars

----------------------------------------------------------------------------
(* C34: the handles the mutator is given *)

\* C34: the mutator of ShellTAP is never invoked with handle 0 nor with a
\* handle no active row holds, that is, of an element whose Remove has been
\* processed; this also when a Remove is handled between the liveness test
\* of a row and the read of its handle in the poll thread.
C34_MutatorHandleLive ==
    variant = "ShellTAP" =>
        \A k \in 1..Len(calls) : calls[k].handle # 0 /\ Tracked(calls[k].handle)

----------------------------------------------------------------------------
(* C35: GetTrackedCount *)

\* C35: over Add and Remove events the value of GetTrackedCount never
\* decreases, lies in 0..32 and is the number of rows inserted so far, active
\* or not: an event raises it by at most one, a Remove leaves it as it is,
\* and it is never below the number of active rows.
C35_TrackedCountMonotone ==
    [][variant = "ShellTAP" =>
         /\ GetTrackedCount' >= GetTrackedCount
         /\ GetTrackedCount' <= GetTrackedCount + 1
         /\ GetTrackedCount' \in 0..MAX_TRACKED
         /\ GetTrackedCount' = Len(m_tracked')
         /\ GetTrackedCount' >= Cardinality(ActiveRows')
         /\ lastOp'.op = "Remove" => GetTrackedCount' = GetTrackedCount
         /\ \A i \in Rows : m_tracked'[i].active => m_tracked[i].active]_vars

\* The table is full and a Remove has just cleared one of its rows:
\* GetTrackedCount still reports 32, above the 31 active rows
C35_Witness ==
    /\ ShellTargeting
    /\ lastOp.op = "Remove"
    /\ GetTrackedCount = MAX_TRACKED
    /\ Cardinality(ActiveRows) = MAX_TRACKED - 1

----------------------------------------------------------------------------
(* C36: rows are never given back *)

\* C36: once the table of a variant has as many rows as its capacity, an Add
\* that needs a new row (in ShellTAP every matching Add, in TaskbarTAP a frame,
\* or a fill or stroke no active row has room for) changes nothing and
\* invokes no mutator, whatever rows have become inactive since; and the
\* mutator is only ever invoked on handles the table holds.
C36_FullTableDropsAdds ==
    [][/\ (variant = "ShellTAP" /\ lastOp'.op = "Add" /\ m_trackedCount = MAX_TRACKED) =>
             /\ m_tracked' = m_tracked /\ m_trackedCount' = m_trackedCount
             /\ calls' = <<>> /\ ops' = <<>> /\ xaml' = xaml
             /\ ret' = S_OK
       /\ (/\ variant = "TaskbarTAP" /\ lastOp'.op = "Add"
           /\ m_taskbarCount = MAX_TASKBARS
           /\ FreeSlots(m_taskbars, m_taskbarCount, ElementOf(lastOp'.handle)) = {}) =>
             /\ m_taskbars' = m_taskbars /\ m_taskbarCount' = m_taskbarCount
             /\ calls' = <<>> /\ ops' = <<>> /\ xaml' = xaml
             /\ ret' = S_OK
       /\ \A k \in 1..Len(calls') :
             IF variant = "ShellTAP"
             THEN \E i \in 1..m_trackedCount' : m_tracked'[i].handle = calls'[k].handle
             ELSE \E i \in 1..m_taskbarCount' :
                     calls'[k].handle \in {m_taskbars'[i].backgroundFill,
                                           m_taskbars'[i].backgroundStroke}
      ]_vars

\* Every one of the 32 rows of ShellTAP has been removed and a further matching
\* element has just been added: it is not held and nothing was invoked
C36_Witness ==
    /\ ShellTargeting
    /\ m_trackedCount = MAX_TRACKED /\ ActiveRows = {}
    /\ lastOp.op = "Add"
    /\ MatchesTarget(ElementOf(lastOp.handle).name, ElementOf(lastOp.handle).type).matched
    /\ ~Held(lastOp.handle)
    /\ calls = <<>>

----------------------------------------------------------------------------
(* C37: the number of poll threads *)

\* C37: whatever SetSite calls a process has seen (attach, re-attach with a
\* new site, a null site), at most one poll thread is in its loop.
C37_AtMostOnePollThread == site.threads <= 1

----------------------------------------------------------------------------
(* C38: where TaskbarTAP stores a handle and what it mutates *)

\* C38: an Add of TaskbarTAP leaves every component of an existing row that is
\* not zero as it is.  A fill or a stroke it stores goes to the first active
\* row whose component of that kind is zero and to a new row when there is
\* none; a frame it stores goes to a new row.  Every invocation of the
\* mutator is for the fill of an active row, as non-stroke, or for the stroke
\* of an active row, as stroke.
C38_AddNeverOverwrites ==
    [][variant = "TaskbarTAP" =>
         /\ lastOp'.op = "Add" =>
               LET h == lastOp'.handle
                   e == ElementOf(h)
                   free == FreeSlots(m_taskbars, m_taskbarCount, e)
                   stored == m_taskbars' # m_taskbars
                   fresh == /\ m_taskbarCount' = m_taskbarCount + 1
                            /\ m_taskbars' = Append(m_taskbars,
                                   StoreHandle([ZeroTaskbar EXCEPT !.active = TRUE], e, h))
               IN  /\ \A i \in TaskbarRows :
                         /\ m_taskbars[i].backgroundFill # 0 =>
                               m_taskbars'[i].backgroundFill = m_taskbars[i].backgroundFill
                         /\ m_taskbars[i].backgroundStroke # 0 =>
                               m_taskbars'[i].backgroundStroke = m_taskbars[i].backgroundStroke
                         /\ m_taskbars[i].taskbarFrame # 0 =>
                               m_taskbars'[i].taskbarFrame = m_taskbars[i].taskbarFrame
                   /\ (stored /\ isTaskbarFrame(e)
                       /\ ~isBackgroundFill(e) /\ ~isBackgroundStroke(e)) => fresh
                   /\ (stored /\ (isBackgroundFill(e) \/ isBackgroundStroke(e))) =>
                         IF free = {}
                         THEN fresh
                         ELSE /\ m_taskbarCount' = m_taskbarCount
                              /\ m_taskbars' =
                                    [m_taskbars EXCEPT ![SetMin(free) + 1] = StoreHandle(@, e, h)]
         /\ \A k \in 1..Len(calls') :
               \E i \in 1..m_taskbarCount' :
                  /\ m_taskbars'[i].active
                  /\ calls'[k].handle # 0
                  /\ \/ calls'[k].handle = m_taskbars'[i].backgroundFill /\ ~calls'[k].isStroke
                     \/ calls'[k].handle = m_taskbars'[i].backgroundStroke /\ calls'[k].isStroke
      ]_vars

\* A frame, a fill and the frame again were added: the fill joined the row of
\* the first frame, the second frame opened a row of its own, and the pass of
\* that Add invoked the mutator on the fill only
C38_Witness ==
    /\ variant = "TaskbarTAP" /\ lastOp.op = "Add" /\ lastOp.handle = 4
    /\ m_taskbarCount = 2
    /\ m_taskbars[1] = [backgroundFill |-> 1, backgroundStroke |-> 0, taskbarFrame |-> 4,
                        active |-> TRUE]
    /\ m_taskbars[2] = [backgroundFill |-> 0, backgroundStroke |-> 0, taskbarFrame |-> 4,
                        active |-> TRUE]
    /\ Invoked = {1}

----------------------------------------------------------------------------
(* C39: the declared rule count *)

\* The rules in force: the configured ones of a record of the expected version
EffectiveRules ==
    IF g_config.version = SHELLTAP_CONFIG_VERSION THEN Configured(g_config) ELSE {}

\* C39: the matcher of ShellTAP consults the first 8 rules at most: with a
\* declared count above 8 it answers as with 8, with a count of zero or less
\* it matches nothing; and discovery mode is on exactly when no rule is in
\* force.
C39_RuleCountClamped ==
    variant = "ShellTAP" =>
        /\ lastOp.op = "Add" =>
              LET e == ElementOf(lastOp.handle)
                  m == MatchesTarget(e.name, e.type)
              IN  /\ g_config.targetCount > MAX_TARGETS =>
                        m = MatchLoop([g_config EXCEPT !.targetCount = MAX_TARGETS], 0,
                                      e.name, e.type)
                  /\ g_config.targetCount <= 0 => ~m.matched /\ ~Held(lastOp.handle)
                  /\ m.matched => \E i \in Configured(g_config) :
                                     Satisfies(g_config, i, e.name, e.type)
        /\ g_discoveryMode <=> (EffectiveRules = {})

====
